---- MODULE Spec2Model ----
(***************************************************************************)
(* A model of the recipe-book application: the retrying fetch wrapper of   *)
(* the client (utils/apiClient.ts), the REST handlers of the ingredient    *)
(* and recipe routers and the relational store they work on.               *)
(*                                                                         *)
(* JavaScript strings whose characters the code inspects (trim, length,    *)
(* toLowerCase, includes, SQL LOWER) are sequences of one-character        *)
(* strings; strings the code only passes on are TLA+ strings.              *)
(***************************************************************************)
EXTENDS Integers, Sequences, FiniteSets, TLC

VARIABLES
    \* ---- client: one makeRequest call (utils/apiClient.ts)
    pc,          \* where makeRequest is: idle, fetch, await, delay, returned, raised
    config,      \* the RequestConfig of the call, defaults applied
    attempt,     \* the loop variable of makeRequest
    lastError,   \* makeRequest's lastError
    fetchCalls,  \* number of calls of the underlying fetch made by this makeRequest
    waits,       \* the delays (ms) this makeRequest has waited, in order
    outcome,     \* what makeRequest returned or raised
    options,     \* the RequestInit of the call: method, url and JSON body
    response,    \* the response of the current attempt, once fetch has resolved
    log,         \* the outcome of each call of the underlying fetch, in order
    \* ---- transport between the client and the server
    wire,        \* attempt number -> where that attempt's request is
    \* ---- server: the relational store (db/database.ts) and the last exchange
    recipes,     \* recipes table: id -> row
    ingredients, \* ingredients table: id -> row
    links,       \* recipe_ingredients table: set of rows
    seq,         \* sqlite_sequence: table name -> last AUTOINCREMENT id handed out
    req,         \* the request the server handled last
    res,         \* the response it gave
    \* ---- user interface: one mounted instance of a component or hook
    portion,     \* PortionCalculator: its props and its state
    timer,       \* TimerComponent: its state, its refs and the ticks in flight
    api,         \* useApi: its state and the execute calls in flight
    toast,       \* useToast: its toasts and its timeoutsRef
    \* ---- start of the server
    boot         \* the calls of seedDatabase made and how the last one ended

clientVars == <<pc, config, attempt, lastError, fetchCalls, waits, outcome, options,
                response, log>>
storeVars == <<recipes, ingredients, links, seq>>
serverVars == <<recipes, ingredients, links, seq, req, res>>
uiVars == <<portion, timer, api, toast, boot>>
vars == <<pc, config, attempt, lastError, fetchCalls, waits, outcome, options,
          response, log, wire,
          recipes, ingredients, links, seq, req, res,
          portion, timer, api, toast, boot>>

(***************************************************************************)
(* Bounds of the model.                                                    *)
(***************************************************************************)
MaxRetries == 3
\* ingredients and recipes created on top of the seed
MaxNewIngredients == 2
MaxNewRecipes == 1
MaxSeedCalls == 3

(***************************************************************************)
(* Strings as character sequences.                                         *)
(***************************************************************************)
\* String.prototype.includes
Includes(s, sub) ==
    \E i \in 1..(Len(s) - Len(sub) + 1) : SubSeq(s, i, i + Len(sub) - 1) = sub

Digit(d) ==
    CASE d = 0 -> "0" [] d = 1 -> "1" [] d = 2 -> "2" [] d = 3 -> "3" [] d = 4 -> "4"
      [] d = 5 -> "5" [] d = 6 -> "6" [] d = 7 -> "7" [] d = 8 -> "8" [] d = 9 -> "9"

(***************************************************************************)
(* utils/apiClient.ts                                                      *)
(***************************************************************************)
DEFAULT_TIMEOUT == 10000
DEFAULT_RETRIES == 2
DEFAULT_RETRY_DELAY == 1000

\* a config field that the caller left out, or set
Unset == [set |-> FALSE, v |-> 0]
Given(n) == [set |-> TRUE, v |-> n]

\* the destructuring defaults of makeRequest
ApplyDefaults(c) ==
    [timeout |-> IF c.timeout.set THEN c.timeout.v ELSE DEFAULT_TIMEOUT,
     retries |-> IF c.retries.set THEN c.retries.v ELSE DEFAULT_RETRIES,
     retryDelay |-> IF c.retryDelay.set THEN c.retryDelay.v ELSE DEFAULT_RETRY_DELAY]

\* field-level details of an error body: absent, or a list of field names
NoDetails == [present |-> FALSE, fields |-> <<>>]
Details(fs) == [present |-> TRUE, fields |-> fs]

\* A response body as response.json() sees it: parses is FALSE when json()
\* rejects; message, code and details are those of body.error (empty when the
\* body has no error object or the field is missing); data is the payload.
Body(parses, message, code, details, data) ==
    [parses |-> parses, message |-> message, code |-> code,
     details |-> details, data |-> data]

Unparsable == Body(FALSE, <<>>, "", NoDetails, "")

ErrorBodies ==
    { Unparsable,
      Body(TRUE, <<>>, "", NoDetails, ""),
      Body(TRUE, <<"B", "a", "d">>, "VALIDATION_ERROR", Details(<<"name">>), ""),
      Body(TRUE, <<"N", "o">>, "NOT_FOUND", NoDetails, ""),
      Body(TRUE, <<>>, "RATE_LIMITED", NoDetails, "") }

OkBodies ==
    { Unparsable, Body(TRUE, <<>>, "", NoDetails, "payload") }

\* Response.ok
Ok(status) == status >= 200 /\ status <= 299

\* no response yet in this attempt
NoResponseYet == [status |-> 0, body |-> Unparsable]

\* the errors of utils/apiErrors.ts, and a plain Error
NoError == [kind |-> "none", message |-> <<>>, code |-> "", statusCode |-> 0,
            details |-> NoDetails]
PlainError(message) == [NoError EXCEPT !.kind = "Error", !.message = message]
ApiError(message, code, statusCode, details) ==
    [kind |-> "ApiError", message |-> message, code |-> code,
     statusCode |-> statusCode, details |-> details]
NetworkError ==
    [NoError EXCEPT !.kind = "NetworkError", !.message =
    <<"N", "e", "t", "w", "o", "r", "k", " ", "e", "r", "r", "o", "r", ".", " ", "P",
      "l", "e", "a", "s", "e", " ", "c", "h", "e", "c", "k", " ", "y", "o", "u", "r",
      " ", "c", "o", "n", "n", "e", "c", "t", "i", "o", "n", ".">>]
TimeoutError ==
    [NoError EXCEPT !.kind = "TimeoutError", !.message =
    <<"R", "e", "q", "u", "e", "s", "t", " ", "t", "i", "m", "e", "d", " ", "o", "u",
      "t", ".", " ", "P", "l", "e", "a", "s", "e", " ", "t", "r", "y", " ", "a", "g",
      "a", "i", "n", ".">>]
\* the ApiError makeRequest builds from a response that is not ok; errorData is
\* null when json() rejects, and a missing field falls back to its default
ErrorOfResponse(r) ==
    LET errorData == r.body
        message == IF errorData.parses /\ errorData.message # <<>>
                   THEN errorData.message
                   \* `HTTP ${response.status}`
                   ELSE <<"H", "T", "T", "P", " ", Digit(r.status \div 100),
                          Digit((r.status \div 10) % 10), Digit(r.status % 10)>>
        code == IF errorData.parses /\ errorData.code # ""
                THEN errorData.code ELSE "HTTP_ERROR"
        details == IF errorData.parses THEN errorData.details ELSE NoDetails
    IN ApiError(message, code, r.status, details)

\* a comparison that lets status 400 through
IsClientErrorAbove400(error) ==
    error.kind = "ApiError" /\ error.statusCode > 400 /\ error.statusCode < 500

\* the catch clause's test for an error that is not retried
IsClientError(error) ==
    error.kind = "ApiError" /\ error.statusCode >= 400 /\ error.statusCode < 500

\* a backoff that grows linearly
BackoffDelayLinear(retryDelay, k) == retryDelay * (k + 1)

\* the backoff delay after failed attempt k
BackoffDelay(retryDelay, k) == retryDelay * 2^k

\* every error that is no ApiError reported as a network failure
AfterLoopAlwaysNetwork(error) ==
    IF error.kind = "ApiError" THEN error ELSE NetworkError

\* the code after the loop: what is raised once the attempts are used up
AfterLoop(error) ==
    IF error.kind \in {"ApiError", "TimeoutError"} THEN error
    ELSE IF error.kind = "none"
         THEN PlainError(<<"R", "e", "q", "u", "e", "s", "t", " ",
                          "f", "a", "i", "l", "e", "d">>)
    ELSE IF Includes(error.message, <<"f", "e", "t", "c", "h">>)
            \/ Includes(error.message, <<"n", "e", "t", "w", "o", "r", "k">>)
         THEN NetworkError
    ELSE error

Pending == [kind |-> "pending", data |-> "", error |-> NoError]
Raised(error) == [kind |-> "raised", data |-> "", error |-> error]

\* makeRequest is called: the loop is entered when 0 <= retries
Call(o, c) ==
    /\ pc \in {"idle", "returned", "raised"}
    /\ options' = o
    /\ config' = ApplyDefaults(c)
    /\ attempt' = 0
    /\ lastError' = NoError
    /\ fetchCalls' = 0
    /\ waits' = <<>>
    /\ response' = NoResponseYet
    /\ log' = <<>>
    /\ IF 0 <= config'.retries
       THEN pc' = "fetch" /\ outcome' = Pending
       ELSE pc' = "raised" /\ outcome' = Raised(AfterLoop(NoError))

\* fetchWithTimeout calls fetch
CallFetch ==
    /\ pc = "fetch"
    /\ fetchCalls' = fetchCalls + 1
    /\ pc' = "await"
    /\ UNCHANGED <<config, attempt, lastError, waits, outcome, options, response, log>>

\* the value makeRequest returns
Return(data) ==
    /\ pc' = "returned"
    /\ outcome' = [kind |-> "returned", data |-> data, error |-> NoError]
    /\ UNCHANGED <<config, attempt, lastError, fetchCalls, waits, options>>

\* the catch clause of the loop body
Catch(error) ==
    /\ lastError' = error
    /\ IF IsClientError(error)
       THEN pc' = "raised" /\ outcome' = Raised(error)
       ELSE IF attempt >= config.retries
            THEN pc' = "raised" /\ outcome' = Raised(AfterLoop(error))
            ELSE pc' = "delay" /\ outcome' = outcome
    /\ UNCHANGED <<config, attempt, fetchCalls, waits, options>>

\* fetch resolves with a response: the rest of the try block
OnResponse(r) ==
    /\ pc = "await"
    /\ response' = r
    \* how the log names the outcome of a call of fetch that resolved
    /\ log' = Append(log, IF Ok(r.status)
                          THEN (IF r.status = 204 \/ r.body.parses THEN "success" ELSE "badjson")
                          ELSE IF r.status = 429 THEN "429"
                          ELSE IF r.status >= 400 /\ r.status < 500 THEN "4xx"
                          ELSE "5xx")
    /\ IF ~Ok(r.status) THEN Catch(ErrorOfResponse(r))
       ELSE IF r.status = 204 THEN Return("undefined")
       ELSE IF r.body.parses THEN Return(r.body.data)
       \* response.json() rejects with a SyntaxError for a body that is no JSON
       ELSE Catch(PlainError(<<"U", "n", "e", "x", "p", "e", "c", "t", "e", "d", " ",
                               "t", "o", "k", "e", "n">>))

\* fetch rejects with an error that is no AbortError: fetchWithTimeout rethrows it
OnReject(message) ==
    /\ pc = "await"
    /\ log' = Append(log, "transport")
    /\ response' = response
    /\ Catch(PlainError(message))

\* the timeout fires first: controller.abort() makes fetch reject with an
\* AbortError, which fetchWithTimeout turns into a TimeoutError
OnAbort ==
    /\ pc = "await"
    /\ log' = Append(log, "timeout")
    /\ response' = response
    /\ Catch(TimeoutError)

\* the backoff delay elapses, attempt++ and the loop test
Delay ==
    /\ pc = "delay"
    /\ waits' = Append(waits, BackoffDelay(config.retryDelay, attempt))
    /\ attempt' = attempt + 1
    /\ IF attempt' <= config.retries
       THEN pc' = "fetch" /\ outcome' = outcome
       ELSE pc' = "raised" /\ outcome' = Raised(AfterLoop(lastError))
    /\ response' = NoResponseYet
    /\ UNCHANGED <<config, lastError, fetchCalls, options, log>>

(***************************************************************************)
(* JavaScript values of a JSON request body.  A number is kept in tenths   *)
(* (fixed point, one decimal), so that 1.5 is a value: N(4) is 4, the      *)
(* number 1.5 is Num(15).                                                  *)
(***************************************************************************)
JsVal(t, s, n, a) == [t |-> t, s |-> s, n |-> n, a |-> a]
Undefined == JsVal("undefined", <<>>, 0, <<>>)
Str(s) == JsVal("string", s, 0, <<>>)
Num(tenths) == JsVal("number", <<>>, tenths, <<>>)
Arr(a) == JsVal("array", <<>>, 0, a)
Obj == JsVal("object", <<>>, 0, <<>>)
N(i) == i * 10

\* ToBoolean
Truthy(v) ==
    CASE v.t \in {"undefined", "null"} -> FALSE
      [] v.t = "string" -> v.s # <<>>
      [] v.t = "number" -> v.n # 0
      [] OTHER -> TRUE

Whitespace == {" ", "LF", "TAB"}

\* String.prototype.trim
RECURSIVE TrimStart(_)
TrimStart(s) ==
    IF s # <<>> /\ Head(s) \in Whitespace THEN TrimStart(Tail(s)) ELSE s

RECURSIVE TrimEnd(_)
TrimEnd(s) ==
    IF s # <<>> /\ s[Len(s)] \in Whitespace
    THEN TrimEnd(SubSeq(s, 1, Len(s) - 1)) ELSE s

Trim(s) == TrimEnd(TrimStart(s))

UpperAscii == <<"A", "B", "C", "D", "E", "F", "G", "H", "I", "J", "K", "L", "M",
                "N", "O", "P", "Q", "R", "S", "T", "U", "V", "W", "X", "Y", "Z">>
LowerAscii == <<"a", "b", "c", "d", "e", "f", "g", "h", "i", "j", "k", "l", "m",
                "n", "o", "p", "q", "r", "s", "t", "u", "v", "w", "x", "y", "z">>

\* the lower-case letter of each upper-case letter of the two alphabets
Fold(upper, lower) ==
    [c \in { upper[i] : i \in 1..Len(upper) } |->
        lower[CHOOSE i \in 1..Len(upper) : upper[i] = c]]


AsciiFold == Fold(UpperAscii, LowerAscii)
\* Letters outside ASCII are written by code point: "U00C7" is the capital C
\* with cedilla and "U00E7" the small one.
UnicodeFold == Fold(UpperAscii \o <<"U00C7", "U00C9">>, LowerAscii \o <<"U00E7", "U00E9">>)

LowerChar(c, fold) == IF c \in DOMAIN fold THEN fold[c] ELSE c

\* SQLite's built-in LOWER(): it folds the ASCII letters only
SqlLower(s) == [i \in 1..Len(s) |-> LowerChar(s[i], AsciiFold)]

\* String.prototype.toLowerCase: it folds every letter
ToLowerCase(s) == [i \in 1..Len(s) |-> LowerChar(s[i], UnicodeFold)]

(***************************************************************************)
(* db/database.ts: the three tables and the seed.                          *)
(***************************************************************************)
Link(r, i, q) == [recipe_id |-> r, ingredient_id |-> i, quantity |-> q]

\* the ingredients seedDatabase inserts, in order (ids 1..15)
SeedIngredients ==
    << [name |-> <<"F", "l", "o", "u", "r">>,
        unit |-> <<"g">>],
       [name |-> <<"S", "u", "g", "a", "r">>,
        unit |-> <<"g">>],
       [name |-> <<"E", "g", "g", "s">>,
        unit |-> <<"p", "i", "e", "c", "e">>],
       [name |-> <<"M", "i", "l", "k">>,
        unit |-> <<"m", "l">>],
       [name |-> <<"B", "u", "t", "t", "e", "r">>,
        unit |-> <<"g">>],
       [name |-> <<"S", "a", "l", "t">>,
        unit |-> <<"p", "i", "n", "c", "h">>],
       [name |-> <<"T", "o", "m", "a", "t", "o">>,
        unit |-> <<"p", "i", "e", "c", "e">>],
       [name |-> <<"O", "n", "i", "o", "n">>,
        unit |-> <<"p", "i", "e", "c", "e">>],
       [name |-> <<"G", "a", "r", "l", "i", "c">>,
        unit |-> <<"p", "i", "e", "c", "e">>],
       [name |-> <<"O", "l", "i", "v", "e", " ", "O", "i", "l">>,
        unit |-> <<"m", "l">>],
       [name |-> <<"P", "a", "s", "t", "a">>,
        unit |-> <<"g">>],
       [name |-> <<"C", "h", "i", "c", "k", "e", "n", " ", "B", "r", "e", "a", "s", "t">>,
        unit |-> <<"g">>],
       [name |-> <<"R", "i", "c", "e">>,
        unit |-> <<"g">>],
       [name |-> <<"L", "e", "m", "o", "n">>,
        unit |-> <<"p", "i", "e", "c", "e">>],
       [name |-> <<"P", "a", "r", "s", "l", "e", "y">>,
        unit |-> <<"g">>] >>

\* The recipes seedDatabase inserts, in order (ids 1..3). Their description and
\* instructions texts are cut to the first word here: no handler reads the
\* characters of a stored text.
SeedRecipes ==
    << [name |-> <<"C", "l", "a", "s", "s", "i", "c", " ", "P", "a", "n", "c", "a", "k", "e", "s">>,
        description |-> <<"F", "l", "u", "f", "f", "y">>,
        instructions |-> <<"1", ".", " ", "M", "i", "x">>,
        prep_time |-> N(10), cook_time |-> N(15), servings |-> N(4)],
       [name |-> <<"S", "i", "m", "p", "l", "e", " ", "T", "o", "m", "a", "t", "o", " ", "P", "a", "s", "t", "a">>,
        description |-> <<"Q", "u", "i", "c", "k">>,
        instructions |-> <<"1", ".", " ", "B", "o", "i", "l">>,
        prep_time |-> N(5), cook_time |-> N(20), servings |-> N(2)],
       [name |-> <<"L", "e", "m", "o", "n", " ", "C", "h", "i", "c", "k", "e", "n", " ", "R", "i", "c", "e">>,
        description |-> <<"A", "r", "o", "m", "a", "t", "i", "c">>,
        instructions |-> <<"1", ".", " ", "S", "e", "a", "s", "o", "n">>,
        prep_time |-> N(10), cook_time |-> N(25), servings |-> N(3)] >>

\* the recipe_ingredients rows seedDatabase inserts
SeedLinkRows ==
    << Link(1, 1, N(200)), Link(1, 2, N(30)), Link(1, 3, N(2)),
       Link(1, 4, N(250)), Link(1, 5, N(50)), Link(1, 6, N(1)),
       Link(2, 7, N(4)), Link(2, 8, N(1)), Link(2, 9, N(3)),
       Link(2, 10, N(30)), Link(2, 11, N(300)), Link(2, 15, N(10)),
       Link(3, 12, N(400)), Link(3, 13, N(200)), Link(3, 14, N(1)),
       Link(3, 10, N(20)), Link(3, 6, N(2)), Link(3, 15, N(15)) >>
SeedLinks == { SeedLinkRows[i] : i \in DOMAIN SeedLinkRows }

\* the store after initDatabase() and seedDatabase(), as server.ts starts it
SeededRecipes == [id \in 1..Len(SeedRecipes) |-> SeedRecipes[id]]
SeededIngredients == [id \in 1..Len(SeedIngredients) |-> SeedIngredients[id]]
SeededSeq == [recipes |-> Len(SeedRecipes), ingredients |-> Len(SeedIngredients)]

\* an insert that skips a row the table already holds
InsertOnce(table, id, row) ==
    IF \E i \in DOMAIN table : table[i] = row THEN table
    ELSE [i \in DOMAIN table \cup {id} |-> IF i = id THEN row ELSE table[i]]

\* a table with one row added, and with one row removed
Insert(table, id, row) == [i \in DOMAIN table \cup {id} |-> IF i = id THEN row ELSE table[i]]
Remove(table, id) == [i \in DOMAIN table \ {id} |-> table[i]]

(***************************************************************************)
(* utils/errors.ts and the error handler of api/server.ts: the response of *)
(* a handler.  fields are the field names of the details, in order; id is  *)
(* the id of the row in data (0 when the response carries none).           *)
(***************************************************************************)
Response(status, code, message, fields, id) ==
    [status |-> status, code |-> code, message |-> message, fields |-> fields, id |-> id]

NoResponse == Response(0, "", <<>>, <<>>, 0)
NoRequest == [method |-> "", path |-> ""]
Request(method, path) == [method |-> method, path |-> path]

RECURSIVE DecimalString(_)
\* String(n) of an integer
DecimalString(n) ==
    IF n < 0 THEN <<"-">> \o DecimalString(-n)
    ELSE IF n < 10 THEN <<Digit(n)>>
    ELSE DecimalString(n \div 10) \o <<Digit(n % 10)>>

ValidationError(message, fields) == Response(400, "VALIDATION_ERROR", message, fields, 0)
NotFoundError(resource, id) ==
    Response(404, "NOT_FOUND",
             resource \o <<" ", "w", "i", "t", "h", " ", "i", "d", " ">> \o DecimalString(id) \o <<" ", "n", "o", "t", " ", "f", "o", "u", "n", "d">>,
             <<>>, 0)
ConflictError(message) == Response(409, "CONFLICT", message, <<>>, 0)
\* an error that is no AppError: formatErrorResponse's generic fallback
InternalError ==
    Response(500, "INTERNAL_ERROR", <<"A", "n", " ", "u", "n", "e", "x", "p", "e", "c", "t", "e", "d", " ", "e", "r", "r", "o", "r", " ", "o", "c", "c", "u", "r", "r", "e", "d">>, <<>>, 0)
Success(status, id) == Response(status, "", <<>>, <<>>, id)

ValidationFailed == <<"V", "a", "l", "i", "d", "a", "t", "i", "o", "n", " ", "f", "a", "i", "l", "e", "d">>
InvalidIngredientId == <<"I", "n", "v", "a", "l", "i", "d", " ", "i", "n", "g", "r", "e", "d", "i", "e", "n", "t", " ", "I", "D">>
IngredientText == <<"I", "n", "g", "r", "e", "d", "i", "e", "n", "t">>

IngredientWithName == <<"I", "n", "g", "r", "e", "d", "i", "e", "n", "t", " ", "w", "i", "t", "h", " ", "n", "a", "m", "e", " ", "\"">>
AlreadyExists == <<"\"", " ", "a", "l", "r", "e", "a", "d", "y", " ", "e", "x", "i", "s", "t", "s">>

\* the id a route parameter parses to: parseInt(req.params.id, 10)
NaN == [nan |-> TRUE, v |-> 0]
Id(n) == [nan |-> FALSE, v |-> n]

(***************************************************************************)
(* api/ingredients.ts                                                      *)
(***************************************************************************)
MaxNameLength == 100

\* validUnits.includes(unit)
IsValidUnit(unit) ==
    /\ unit.t = "string"
    /\ unit.s \in { <<"g">>, <<"m", "l">>, <<"p", "i", "e", "c", "e">>, <<"t", "b", "s", "p">>,
                    <<"t", "s", "p">>, <<"c", "u", "p">>, <<"p", "i", "n", "c", "h">> }

\* SELECT * FROM ingredients WHERE LOWER(name) = LOWER(?)
SameNameRows(table, name) ==
    { i \in DOMAIN table : SqlLower(table[i].name) = SqlLower(name) }

\* a count that sees no link
UsageCountNone(ls, ingredientId) == 0

\* SELECT COUNT(*) FROM recipe_ingredients WHERE ingredient_id = ?
UsageCount(ls, ingredientId) ==
    Cardinality({ l \in ls : l.ingredient_id = ingredientId })

\* GET /api/ingredients/:id
IngredientGet(id) ==
    /\ req' = Request("GET", "/api/ingredients/:id")
    /\ res' = IF id.nan THEN ValidationError(InvalidIngredientId, <<"id">>)
              ELSE IF id.v \notin DOMAIN ingredients
                   THEN NotFoundError(IngredientText, id.v)
              ELSE Success(200, id.v)
    /\ UNCHANGED storeVars

\* the field-level errors of POST /api/ingredients
IngredientCreateErrors(name, unit) ==
    (IF ~Truthy(name) \/ name.t # "string" \/ Len(Trim(name.s)) = 0
     THEN <<"name">> ELSE <<>>)
    \o (IF Truthy(name) /\ Len(Trim(name.s)) > MaxNameLength
        THEN <<"name">> ELSE <<>>)
    \o (IF unit # Undefined /\ ~IsValidUnit(unit) THEN <<"unit">> ELSE <<>>)

\* POST /api/ingredients
IngredientCreate(body) ==
    LET name == body.name
        unit == body.unit
        \* name.trim() of a truthy value that is no string throws a TypeError
        throws == Truthy(name) /\ name.t # "string"
        errors == IngredientCreateErrors(name, unit)
        trimmed == Trim(name.s)
        ingredientId == seq.ingredients + 1
    IN /\ req' = Request("POST", "/api/ingredients")
       /\ IF throws
          THEN res' = InternalError /\ UNCHANGED storeVars
          ELSE IF errors # <<>>
          THEN res' = ValidationError(ValidationFailed, errors) /\ UNCHANGED storeVars
          ELSE IF SameNameRows(ingredients, trimmed) # {}
          THEN /\ res' = ConflictError(IngredientWithName \o trimmed \o AlreadyExists)
               /\ UNCHANGED storeVars
          ELSE /\ ingredients' =
                     Insert(ingredients, ingredientId,
                            [name |-> trimmed,
                             unit |-> IF Truthy(unit) THEN unit.s
                                      ELSE <<"p", "i", "e", "c", "e">>])
               /\ seq' = [seq EXCEPT !.ingredients = ingredientId]
               /\ res' = Success(201, ingredientId)
               /\ UNCHANGED <<recipes, links>>

\* the field-level errors of PUT /api/ingredients/:id
IngredientUpdateErrors(name, unit) ==
    (IF name # Undefined
     THEN IF name.t # "string" \/ Len(Trim(name.s)) = 0 THEN <<"name">>
          ELSE IF Len(Trim(name.s)) > MaxNameLength THEN <<"name">> ELSE <<>>
     ELSE <<>>)
    \o (IF unit # Undefined /\ ~IsValidUnit(unit) THEN <<"unit">> ELSE <<>>)

\* PUT /api/ingredients/:id
IngredientUpdate(id, body) ==
    LET name == body.name
        unit == body.unit
        existing == ingredients[id.v]
        errors == IngredientUpdateErrors(name, unit)
        trimmed == Trim(name.s)
        updated == [name |-> IF name # Undefined THEN trimmed ELSE existing.name,
                    unit |-> IF unit # Undefined THEN unit.s ELSE existing.unit]
    IN /\ req' = Request("PUT", "/api/ingredients/:id")
       /\ IF id.nan
          THEN res' = ValidationError(InvalidIngredientId, <<"id">>) /\ UNCHANGED storeVars
          ELSE IF id.v \notin DOMAIN ingredients
          THEN res' = NotFoundError(IngredientText, id.v) /\ UNCHANGED storeVars
          ELSE IF errors # <<>>
          THEN res' = ValidationError(ValidationFailed, errors) /\ UNCHANGED storeVars
          ELSE IF /\ name # Undefined
                  /\ ToLowerCase(Trim(name.s)) # ToLowerCase(existing.name)
                  /\ SameNameRows(ingredients, trimmed) \ {id.v} # {}
          THEN /\ res' = ConflictError(IngredientWithName \o trimmed \o AlreadyExists)
               /\ UNCHANGED storeVars
          \* the UPDATE fails on the UNIQUE constraint of ingredients.name (binary
          \* collation): an SqliteError
          ELSE IF \E i \in DOMAIN ingredients \ {id.v} : ingredients[i].name = updated.name
          THEN res' = InternalError /\ UNCHANGED storeVars
          ELSE /\ ingredients' = [ingredients EXCEPT ![id.v] = updated]
               /\ res' = Success(200, id.v)
               /\ UNCHANGED <<recipes, links, seq>>

\* DELETE /api/ingredients/:id
IngredientDelete(id) ==
    /\ req' = Request("DELETE", "/api/ingredients/:id")
    /\ IF id.nan
       THEN res' = ValidationError(InvalidIngredientId, <<"id">>) /\ UNCHANGED storeVars
       ELSE IF id.v \notin DOMAIN ingredients
       THEN res' = NotFoundError(IngredientText, id.v) /\ UNCHANGED storeVars
       ELSE IF UsageCount(links, id.v) > 0
       THEN /\ res' = ConflictError(<<"C", "a", "n", "n", "o", "t", " ", "d", "e", "l", "e", "t", "e", " ", "i", "n", "g", "r", "e", "d", "i", "e", "n", "t", ":", " ", "i", "t", " ", "i", "s", " ", "u", "s", "e", "d", " ", "i", "n", " ">> \o DecimalString(UsageCount(links, id.v))
                                    \o <<" ", "r", "e", "c", "i", "p", "e", "(", "s", ")">>)
            /\ UNCHANGED storeVars
       ELSE /\ ingredients' = Remove(ingredients, id.v)
            \* ON DELETE CASCADE of recipe_ingredients.ingredient_id
            /\ links' = { l \in links : l.ingredient_id # id.v }
            /\ res' = Success(204, 0)
            /\ UNCHANGED <<recipes, seq>>

(***************************************************************************)
(* api/recipes.ts                                                          *)
(***************************************************************************)
\* a required text field of POST /api/recipes is missing or blank
IsBlank(v) == ~Truthy(v) \/ v.t # "string" \/ Len(Trim(v.s)) = 0

\* an optional number field is present and is no number, or is below min
IsBadNumber(v, min) == v # Undefined /\ (v.t # "number" \/ v.n < min)

\* a validation that reports the first violated field only
RecipeCreateFirstError(body) ==
    IF IsBlank(body.name) THEN <<"name">>
    ELSE IF IsBlank(body.instructions) THEN <<"instructions">>
    ELSE IF IsBadNumber(body.prep_time, N(0)) THEN <<"prep_time">>
    ELSE IF IsBadNumber(body.cook_time, N(0)) THEN <<"cook_time">>
    ELSE IF IsBadNumber(body.servings, N(1)) THEN <<"servings">>
    ELSE IF Truthy(body.ingredients) /\ body.ingredients.t # "array" THEN <<"ingredients">>
    ELSE <<>>

\* the field-level errors of POST /api/recipes
RecipeCreateErrors(body) ==
    (IF IsBlank(body.name) THEN <<"name">> ELSE <<>>)
    \o (IF IsBlank(body.instructions) THEN <<"instructions">> ELSE <<>>)
    \o (IF IsBadNumber(body.prep_time, N(0)) THEN <<"prep_time">> ELSE <<>>)
    \o (IF IsBadNumber(body.cook_time, N(0)) THEN <<"cook_time">> ELSE <<>>)
    \o (IF IsBadNumber(body.servings, N(1)) THEN <<"servings">> ELSE <<>>)
    \o (IF Truthy(body.ingredients) /\ body.ingredients.t # "array"
        THEN <<"ingredients">> ELSE <<>>)

\* description?.trim() throws a TypeError for a value that is neither
\* undefined, null nor a string
DescriptionThrows(description) ==
    description.t \notin {"undefined", "null", "string"}

\* description?.trim() || null, null being the empty text
DescriptionValue(description) ==
    IF description.t = "string" THEN Trim(description.s) ELSE <<>>

\* value || fallback of an optional number
OrElse(v, fallback) == IF Truthy(v) THEN v.n ELSE fallback

\* a text of decimal digits only, and the integer it writes
IsDigits(s) ==
    s # <<>> /\ \A i \in 1..Len(s) : s[i] \in {"0", "1", "2", "3", "4", "5", "6", "7", "8", "9"}

RECURSIVE DigitsValue(_)
DigitsValue(s) ==
    IF s = <<>> THEN 0
    ELSE 10 * DigitsValue(SubSeq(s, 1, Len(s) - 1))
         + (CHOOSE d \in 0..9 : Digit(d) = s[Len(s)])

\* the ingredients row a recipe_ingredients.ingredient_id value refers to: the
\* id itself for an integer, the integer a text of digits writes (the INTEGER
\* affinity of the column converts it), and no row (0) for any other value
ParentId(v) ==
    IF v.t = "number" /\ v.n % 10 = 0 THEN v.n \div 10
    ELSE IF v.t = "string" /\ IsDigits(v.s) THEN DigitsValue(v.s)
    ELSE 0

\* a table without constraints
LinkInsertNeverFails(ls, table, recipeId, ing) == FALSE

\* INSERT INTO recipe_ingredients fails: the FOREIGN KEY to ingredients or the
\* UNIQUE(recipe_id, ingredient_id) constraint is broken
LinkInsertFails(ls, table, recipeId, ing) ==
    \/ ParentId(ing.ingredient_id) \notin DOMAIN table
    \/ \E l \in ls : l.recipe_id = recipeId
                     /\ l.ingredient_id = ParentId(ing.ingredient_id)

RECURSIVE InsertRecipeIngredients(_, _, _, _)
\* the loop over the supplied ingredient rows: the links after it, and whether
\* it ran to its end (an insert that fails throws, and the rows inserted before
\* it stay: the handler opens no transaction)
InsertRecipeIngredients(ls, table, recipeId, rows) ==
    IF rows = <<>> THEN [links |-> ls, ok |-> TRUE]
    ELSE LET ing == Head(rows)
         IN IF Truthy(ing.ingredient_id) /\ ing.quantity.t = "number"
            THEN IF LinkInsertFails(ls, table, recipeId, ing)
                 THEN [links |-> ls, ok |-> FALSE]
                 ELSE InsertRecipeIngredients(
                          ls \cup {Link(recipeId, ParentId(ing.ingredient_id),
                                        ing.quantity.n)},
                          table, recipeId, Tail(rows))
            ELSE InsertRecipeIngredients(ls, table, recipeId, Tail(rows))

\* POST /api/recipes
RecipeCreate(body) ==
    LET errors == RecipeCreateErrors(body)
        recipeId == seq.recipes + 1
        row == [name |-> Trim(body.name.s),
                description |-> DescriptionValue(body.description),
                instructions |-> Trim(body.instructions.s),
                prep_time |-> OrElse(body.prep_time, N(0)),
                cook_time |-> OrElse(body.cook_time, N(0)),
                servings |-> OrElse(body.servings, N(1))]
        inserted == IF Truthy(body.ingredients) /\ Len(body.ingredients.a) > 0
                    THEN InsertRecipeIngredients(links, ingredients, recipeId,
                                                 body.ingredients.a)
                    ELSE [links |-> links, ok |-> TRUE]
    IN /\ req' = Request("POST", "/api/recipes")
       /\ IF errors # <<>>
          THEN res' = ValidationError(ValidationFailed, errors) /\ UNCHANGED storeVars
          ELSE IF DescriptionThrows(body.description)
          THEN res' = InternalError /\ UNCHANGED storeVars
          ELSE /\ recipes' = Insert(recipes, recipeId, row)
               /\ seq' = [seq EXCEPT !.recipes = recipeId]
               /\ links' = inserted.links
               /\ res' = IF inserted.ok THEN Success(201, recipeId) ELSE InternalError
               /\ UNCHANGED ingredients

InvalidRecipeId == <<"I", "n", "v", "a", "l", "i", "d", " ", "r", "e", "c", "i", "p", "e", " ", "I", "D">>
RecipeText == <<"R", "e", "c", "i", "p", "e">>

\* GET /api/recipes/:id
RecipeGet(id) ==
    /\ req' = Request("GET", "/api/recipes/:id")
    /\ res' = IF id.nan THEN ValidationError(InvalidRecipeId, <<"id">>)
              ELSE IF id.v \notin DOMAIN recipes THEN NotFoundError(RecipeText, id.v)
              ELSE Success(200, id.v)
    /\ UNCHANGED storeVars

\* a text field of PUT /api/recipes/:id is present and is no text, or is blank
IsBlankIfPresent(v) == v # Undefined /\ (v.t # "string" \/ Len(Trim(v.s)) = 0)

\* the field-level errors of PUT /api/recipes/:id
RecipeUpdateErrors(body) ==
    (IF IsBlankIfPresent(body.name) THEN <<"name">> ELSE <<>>)
    \o (IF IsBlankIfPresent(body.instructions) THEN <<"instructions">> ELSE <<>>)
    \o (IF IsBadNumber(body.prep_time, N(0)) THEN <<"prep_time">> ELSE <<>>)
    \o (IF IsBadNumber(body.cook_time, N(0)) THEN <<"cook_time">> ELSE <<>>)
    \o (IF IsBadNumber(body.servings, N(1)) THEN <<"servings">> ELSE <<>>)

\* the row after UPDATE recipes SET ... : a column is set when its field is
\* not undefined
UpdatedRecipe(existing, body) ==
    [name |-> IF body.name # Undefined THEN Trim(body.name.s) ELSE existing.name,
     description |-> IF body.description # Undefined
                     THEN DescriptionValue(body.description) ELSE existing.description,
     instructions |-> IF body.instructions # Undefined
                      THEN Trim(body.instructions.s) ELSE existing.instructions,
     prep_time |-> IF body.prep_time # Undefined THEN body.prep_time.n ELSE existing.prep_time,
     cook_time |-> IF body.cook_time # Undefined THEN body.cook_time.n ELSE existing.cook_time,
     servings |-> IF body.servings # Undefined THEN body.servings.n ELSE existing.servings]

\* PUT /api/recipes/:id
RecipeUpdate(id, body) ==
    LET errors == RecipeUpdateErrors(body)
        \* DELETE FROM recipe_ingredients WHERE recipe_id = ?
        cleared == { l \in links : l.recipe_id # id.v }
        inserted == IF Len(body.ingredients.a) > 0
                    THEN InsertRecipeIngredients(cleared, ingredients, id.v,
                                                 body.ingredients.a)
                    ELSE [links |-> cleared, ok |-> TRUE]
    IN /\ req' = Request("PUT", "/api/recipes/:id")
       /\ IF id.nan
          THEN res' = ValidationError(InvalidRecipeId, <<"id">>) /\ UNCHANGED storeVars
          ELSE IF id.v \notin DOMAIN recipes
          THEN res' = NotFoundError(RecipeText, id.v) /\ UNCHANGED storeVars
          ELSE IF errors # <<>>
          THEN res' = ValidationError(ValidationFailed, errors) /\ UNCHANGED storeVars
          ELSE IF body.description # Undefined /\ DescriptionThrows(body.description)
          THEN res' = InternalError /\ UNCHANGED storeVars
          ELSE /\ recipes' = [recipes EXCEPT ![id.v] = UpdatedRecipe(recipes[id.v], body)]
               /\ IF body.ingredients # Undefined /\ body.ingredients.t = "array"
                  THEN /\ links' = inserted.links
                       /\ res' = IF inserted.ok THEN Success(200, id.v) ELSE InternalError
                  ELSE /\ links' = links
                       /\ res' = Success(200, id.v)
               /\ UNCHANGED <<ingredients, seq>>

\* a delete that leaves the links of the recipe behind
RecipeDeleteNoCascade(id) ==
    /\ req' = Request("DELETE", "/api/recipes/:id")
    /\ IF id.nan
       THEN res' = ValidationError(InvalidRecipeId, <<"id">>) /\ UNCHANGED storeVars
       ELSE IF id.v \notin DOMAIN recipes
       THEN res' = NotFoundError(RecipeText, id.v) /\ UNCHANGED storeVars
       ELSE /\ recipes' = Remove(recipes, id.v)
            /\ res' = Success(204, 0)
            /\ UNCHANGED <<ingredients, links, seq>>

\* DELETE /api/recipes/:id
RecipeDelete(id) ==
    /\ req' = Request("DELETE", "/api/recipes/:id")
    /\ IF id.nan
       THEN res' = ValidationError(InvalidRecipeId, <<"id">>) /\ UNCHANGED storeVars
       ELSE IF id.v \notin DOMAIN recipes
       THEN res' = NotFoundError(RecipeText, id.v) /\ UNCHANGED storeVars
       ELSE /\ recipes' = Remove(recipes, id.v)
            \* ON DELETE CASCADE of recipe_ingredients.recipe_id
            /\ links' = { l \in links : l.recipe_id # id.v }
            /\ res' = Success(204, 0)
            /\ UNCHANGED <<ingredients, seq>>

(***************************************************************************)
(* The client against a mocked fetch, as tests/apiClient.test.ts drives    *)
(* it: each call of fetch resolves with any response, rejects with any     *)
(* transport error, or is aborted by the timeout.  No server takes part.   *)
(***************************************************************************)
GetOptions == [method |-> "GET", url |-> "/api/test", body |-> Undefined]

InitClient ==
    /\ pc = "idle"
    /\ config = ApplyDefaults([retries |-> Unset, retryDelay |-> Unset, timeout |-> Unset])
    /\ attempt = 0
    /\ lastError = NoError
    /\ fetchCalls = 0
    /\ waits = <<>>
    /\ outcome = Pending
    /\ options = GetOptions
    /\ response = NoResponseYet
    /\ log = <<>>

\* no server: nothing sent, the store as initDatabase() leaves it, no exchange
NoBackend ==
    /\ InitClient
    /\ wire = <<>>
    /\ recipes = <<>>
    /\ ingredients = <<>>
    /\ links = {}
    /\ seq = [recipes |-> 0, ingredients |-> 0]
    /\ req = NoRequest
    /\ res = NoResponse
    /\ boot = [calls |-> 0, outcome |-> "none"]

\* no component and no hook is mounted
Unmounted == [mounted |-> FALSE]

NoUi ==
    /\ portion = Unmounted
    /\ timer = Unmounted
    /\ api = Unmounted
    /\ toast = Unmounted

InitMock == NoBackend /\ NoUi

NextMock ==
    \* apiClient.get(url, config), with every retry budget up to the bound, two
    \* base delays and two timeouts
    \/ \E c \in [ retries : {Unset} \cup {Given(n) : n \in 0..MaxRetries},
           retryDelay : {Unset, Given(250)},
           timeout : {Unset, Given(5000)} ] : Call(GetOptions, c) /\ UNCHANGED <<wire, serverVars, uiVars>>
    \/ CallFetch /\ UNCHANGED <<wire, serverVars, uiVars>>
    \* the responses the test doubles resolve with: a status and a body that fits it
    \/ \E r \in { r \in [status : {200, 201, 204, 400, 404, 409, 429, 499, 500, 503},
                          body : ErrorBodies \cup OkBodies] :
                     IF Ok(r.status) THEN r.body \in OkBodies ELSE r.body \in ErrorBodies } :
           OnResponse(r) /\ UNCHANGED <<wire, serverVars, uiVars>>
    \* fetch rejects with the message of a transport failure
    \/ \E message \in { <<"f", "e", "t", "c", "h", " ", "f", "a", "i", "l", "e", "d">>,
                        <<"F", "a", "i", "l", "e", "d", " ", "t", "o", " ", "f", "e", "t", "c", "h">>,
                        <<"N", "e", "t", "w", "o", "r", "k", " ", "e", "r", "r", "o", "r">>,
                        <<"n", "e", "t", "w", "o", "r", "k", " ", "d", "o", "w", "n">>,
                        <<"L", "o", "a", "d", " ", "f", "a", "i", "l", "e", "d">>,
                        <<"E", "C", "O", "N", "N", "R", "E", "F", "U", "S", "E", "D">> } : OnReject(message) /\ UNCHANGED <<wire, serverVars, uiVars>>
    \/ OnAbort /\ UNCHANGED <<wire, serverVars, uiVars>>
    \/ Delay /\ UNCHANGED <<wire, serverVars, uiVars>>

SpecClient == InitMock /\ [][NextMock]_vars

(***************************************************************************)
(* Properties of makeRequest, checked under SpecClient.                    *)
(***************************************************************************)
Last(s) == s[Len(s)]

RECURSIVE Sum(_)
Sum(s) == IF s = <<>> THEN 0 ELSE Head(s) + Sum(Tail(s))

\* C1: a response with status 400-499 other than 429 ends makeRequest at once,
\* whatever the retry budget: no further call of fetch and no backoff wait follow
\* it (one call of fetch when it answers the first attempt), and the ApiError
\* raised carries the response's status and the code and details of its body.
C1_ClientErrorIsTerminal ==
    (response.status >= 400 /\ response.status <= 499 /\ response.status # 429) =>
        /\ pc = "raised"
        /\ outcome.kind = "raised"
        /\ outcome.error.kind = "ApiError"
        /\ outcome.error.statusCode = response.status
        /\ outcome.error.code =
               (IF response.body.parses /\ response.body.code # ""
                THEN response.body.code ELSE "HTTP_ERROR")
        /\ outcome.error.details =
               (IF response.body.parses THEN response.body.details ELSE NoDetails)
        /\ fetchCalls = Len(log)
        /\ Len(waits) = fetchCalls - 1
        /\ (Len(log) = 1 => fetchCalls = 1 /\ waits = <<>>)

\* a 400 with a validation body answers the first attempt of a call with the
\* largest retry budget
C1_Witness ==
    /\ response.status = 400
    /\ response.body.code = "VALIDATION_ERROR"
    /\ config.retries = MaxRetries
    /\ pc = "raised"
    /\ fetchCalls = 1
    /\ outcome.error.details = Details(<<"name">>)

\* C2: a response with status 429 or 5xx is retryable: while the retry budget is
\* not used up, makeRequest goes on to wait the backoff delay and to make another
\* attempt, each such response using up one unit of the budget.
C2_RetryableStatusIsRetried ==
    ((response.status = 429 \/ response.status >= 500) /\ attempt < config.retries) =>
        /\ pc = "delay"
        /\ fetchCalls = attempt + 1

\* C3: one makeRequest makes at least 1 and at most retries + 1 calls of fetch:
\* k + 1 when the first success or terminal failure comes after k retryable
\* failures, and exactly retries + 1, then an error, when every attempt fails
\* retryably (429, 5xx, transport failure, timeout, unreadable body).
RetryableOutcomes == {"429", "5xx", "transport", "timeout", "badjson"}

C3_FetchCallCount ==
    pc \in {"returned", "raised"} =>
        /\ fetchCalls >= 1
        /\ fetchCalls <= config.retries + 1
        /\ fetchCalls = Len(log)
        /\ \A i \in 1..(Len(log) - 1) : log[i] \in RetryableOutcomes
        /\ (Last(log) \in RetryableOutcomes =>
                fetchCalls = config.retries + 1 /\ outcome.kind = "raised")
        /\ (Last(log) = "success" => outcome.kind = "returned")

\* C4: when every attempt fails with a transport failure and the budget is used
\* up, makeRequest raises a NetworkError, whatever the message of the error.
C4_TransportFailureIsNetworkError ==
    (/\ pc = "raised"
     /\ Len(log) = config.retries + 1
     /\ \A i \in 1..Len(log) : log[i] = "transport") =>
        outcome.error.kind = "NetworkError"

\* C5: when the budget is used up, the error raised is the one of the final
\* attempt: an ApiError with the status of the final response when that was a
\* retryable HTTP error, a TimeoutError when the final attempt timed out; neither
\* is ever reported as a NetworkError.
C5_LastErrorIsRaised ==
    (pc = "raised" /\ Len(log) = config.retries + 1) =>
        /\ (Last(log) \in {"429", "5xx"} =>
                /\ outcome.error.kind = "ApiError"
                /\ outcome.error.statusCode = response.status
                /\ outcome.error = lastError)
        /\ (Last(log) = "timeout" => outcome.error = TimeoutError)

\* the final attempt times out after transport failures whose message would make
\* a NetworkError
C5_Witness ==
    /\ pc = "raised"
    /\ config.retries >= 1
    /\ Len(log) = config.retries + 1
    /\ log[1] = "transport"
    /\ Last(log) = "timeout"
    /\ outcome.error.kind = "TimeoutError"

\* C6: the wait after failed attempt k (from 0) is retryDelay * 2^k; a wait
\* happens only between a failed attempt and the next one, so none before the
\* first attempt and none after the last; a request all of whose retries + 1
\* attempts fail has waited retryDelay * (2^retries - 1) in all.
C6_Backoff ==
    /\ \A k \in 1..Len(waits) : waits[k] = config.retryDelay * 2^(k - 1)
    /\ Len(waits) <= config.retries
    /\ Len(waits) = attempt
    /\ (pc = "fetch" => Len(waits) = fetchCalls)
    /\ (pc \in {"await", "delay", "returned", "raised"} => Len(waits) = fetchCalls - 1)
    /\ (pc = "raised" /\ fetchCalls = config.retries + 1 =>
            Sum(waits) = config.retryDelay * (2^config.retries - 1))

\* the default configuration: three failing attempts, 1000 ms then 2000 ms
C6_Witness ==
    /\ pc = "raised"
    /\ config.retries = DEFAULT_RETRIES
    /\ config.retryDelay = DEFAULT_RETRY_DELAY
    /\ fetchCalls = 3
    /\ waits = <<1000, 2000>>

(***************************************************************************)
(* apiClient.post('/api/recipes', body) against the server: every call of  *)
(* fetch puts one copy of the request on the wire.  The server may handle  *)
(* a copy whether or not the client still waits for it; the client sees    *)
(* the attempt answered, fail in transport, or time out.                   *)
(***************************************************************************)
\* the body of a recipe: the fields router.post('/') destructures
RecipeBody(name, description, instructions, servings, rows) ==
    [name |-> name, description |-> description, instructions |-> instructions,
     prep_time |-> Undefined, cook_time |-> Undefined, servings |-> servings,
     ingredients |-> rows]

\* one element of the ingredients array of a recipe body
IngredientRow(ingredient_id, quantity) ==
    [ingredient_id |-> ingredient_id, quantity |-> quantity]

\* the fetch Response of a response of the server: res.status(..).json(..)
\* and formatErrorResponse
FetchResponse(r) ==
    [status |-> r.status,
     body |-> IF r.status = 204 THEN Unparsable
              ELSE Body(TRUE, r.message, r.code,
                        IF r.fields = <<>> THEN NoDetails ELSE Details(r.fields),
                        IF r.id = 0 THEN "" ELSE "payload")]

\* the store as server.ts starts it: initDatabase() then seedDatabase()
InitServer ==
    /\ InitClient
    /\ wire = <<>>
    /\ recipes = SeededRecipes
    /\ ingredients = SeededIngredients
    /\ links = SeedLinks
    /\ seq = SeededSeq
    /\ req = NoRequest
    /\ res = NoResponse
    /\ boot = [calls |-> 1, outcome |-> "returned"]
    /\ NoUi

\* the server receives copy a: router.post('/') of api/recipes.ts
ServerHandles(a) ==
    /\ wire[a].state = "sent"
    /\ RecipeCreate(options.body)
    /\ wire' = [wire EXCEPT ![a] = [state |-> "handled", res |-> res']]
    /\ UNCHANGED <<clientVars, uiVars>>

NextPost ==
    \* apiClient.post(url, body, config), once; the bodies posted: a recipe without
    \* ingredients, one with an ingredient, one that names the same ingredient
    \* twice, and one without a name
    \/ /\ pc = "idle"
       /\ \E body \in { RecipeBody(Str(<<"S", "o", "u", "p">>), Undefined, Str(<<"B", "o", "i", "l">>), Num(N(2)), Undefined),
                        RecipeBody(Str(<<"S", "o", "u", "p">>), Str(<<" ">>), Str(<<"B", "o", "i", "l">>), Undefined, Arr(<<IngredientRow(Num(N(6)), Num(15))>>)),
                        RecipeBody(Str(<<"S", "o", "u", "p">>), Undefined, Str(<<"B", "o", "i", "l">>), Undefined, Arr(<<IngredientRow(Num(N(6)), Num(N(1))), IngredientRow(Num(N(6)), Num(N(2)))>>)),
                        RecipeBody(Str(<<" ">>), Undefined, Str(<<"B", "o", "i", "l">>), Undefined, Undefined) }, c \in [retries : {Unset} \cup {Given(n) : n \in 0..MaxRetries}, retryDelay : {Unset}, timeout : {Unset}] : Call([method |-> "POST", url |-> "/api/recipes", body |-> body], c)
       /\ UNCHANGED <<wire, serverVars, uiVars>>
    \* fetch sends a copy of the request
    \/ /\ CallFetch
       /\ wire' = Append(wire, [state |-> "sent", res |-> NoResponse])
       /\ UNCHANGED <<serverVars, uiVars>>
    \/ \E a \in 1..Len(wire) : ServerHandles(a)
    \* the response to the current attempt's copy arrives
    \/ /\ pc = "await"
       /\ wire[fetchCalls].state = "handled"
       /\ OnResponse(FetchResponse(wire[fetchCalls].res))
       /\ UNCHANGED <<wire, serverVars, uiVars>>
    \* the connection of the current attempt fails, before or after the server got
    \* the copy
    \/ /\ \E message \in { <<"F", "a", "i", "l", "e", "d", " ", "t", "o", " ", "f", "e", "t", "c", "h">>,
                           <<"L", "o", "a", "d", " ", "f", "a", "i", "l", "e", "d">> } :
              OnReject(message)
       /\ UNCHANGED <<wire, serverVars, uiVars>>
    \* the timeout of the current attempt fires
    \/ OnAbort /\ UNCHANGED <<wire, serverVars, uiVars>>
    \/ Delay /\ UNCHANGED <<wire, serverVars, uiVars>>

SpecPost == InitServer /\ [][NextPost]_vars

(***************************************************************************)
(* Properties of a retried POST, checked under SpecPost.                   *)
(***************************************************************************)
\* the recipes in the store that the seed did not put there
CreatedRecipes == DOMAIN recipes \ DOMAIN SeededRecipes

\* the copies of the request the server has handled
HandledCopies == { a \in 1..Len(wire) : wire[a].state = "handled" }

\* the posted body passes the create handler's validation
BodyIsAccepted ==
    RecipeCreateErrors(options.body) = <<>> /\ ~DescriptionThrows(options.body.description)

\* C7: a retried POST is at-least-once and nothing deduplicates it: an attempt
\* the client sees time out or fail in transport is followed, while the budget
\* lasts, by another copy of the same body; the create handler inserts one new
\* recipe for every copy of an accepted body it handles; so one post call has
\* created as many recipes as copies were handled, at most one per call of fetch
\* and never more than retries + 1.
C7_AtLeastOnce ==
    pc # "idle" =>
        /\ Len(wire) = fetchCalls
        /\ fetchCalls <= config.retries + 1
        /\ Cardinality(CreatedRecipes) =
               (IF BodyIsAccepted THEN Cardinality(HandledCopies) ELSE 0)
        /\ Cardinality(CreatedRecipes) <= config.retries + 1
        /\ \A id \in CreatedRecipes : recipes[id].name = Trim(options.body.name.s)
        /\ (/\ log # <<>>
            /\ Last(log) \in {"timeout", "transport"}
            /\ Len(log) <= config.retries) =>
                pc \in {"delay", "fetch", "await"} /\ outcome = Pending

\* every attempt of a call with the largest budget timed out or failed in
\* transport, and the server has handled every copy: retries + 1 recipes
C7_Witness ==
    /\ pc = "raised"
    /\ config.retries = MaxRetries
    /\ \A i \in 1..Len(log) : log[i] \in {"timeout", "transport"}
    /\ Cardinality(CreatedRecipes) = config.retries + 1
    /\ Cardinality({ recipes[id].name : id \in CreatedRecipes }) = 1

(***************************************************************************)
(* The routers on the seeded store: any sequence of requests to the        *)
(* ingredient router and of recipe creations.  The handlers are            *)
(* synchronous, so each request is one step.                               *)
(***************************************************************************)
IngredientBody(name, unit) == [name |-> name, unit |-> unit]

\* the bodies sent: each name without a unit, and a unit alone, valid and not.
\* The names: missing, a number, blank, a seeded name in another case, a new
\* name with surrounding whitespace, and a new name with a letter outside ASCII
\* in both cases
IngredientBodies ==
    { IngredientBody(name, Undefined) : name \in { Undefined,
                                                   Num(N(5)),
                                                   Str(<<" ", " ">>),
                                                   Str(<<"f", "l", "o", "u", "r">>),
                                                   Str(<<" ", "K", "a", "l", "e", " ">>),
                                                   Str(<<"U00C7", "a", "y">>),
                                                   Str(<<"U00E7", "a", "y">>) } }
    \cup { IngredientBody(Undefined, unit) : unit \in { Undefined,
                                                        Str(<<"c", "u", "p">>),
                                                        Str(<<"k", "g">>) } }
    \cup { IngredientBody(Str(<<" ", "K", "a", "l", "e", " ">>), Str(<<"c", "u", "p">>)) }

\* the route parameters sent: no number, a seeded ingredient, and the ids the
\* new ingredients get
NewIds == (Len(SeedIngredients) + 1)..(Len(SeedIngredients) + MaxNewIngredients)
IdInputs == { NaN, Id(1) } \cup { Id(n) : n \in NewIds }
\* the rows updated: those of the new ingredients
UpdateIdInputs == { NaN } \cup { Id(n) : n \in NewIds }

GetIngredient ==
    \E id \in IdInputs : IngredientGet(id) /\ UNCHANGED <<clientVars, wire, uiVars>>

DeleteIngredient ==
    \E id \in IdInputs : IngredientDelete(id) /\ UNCHANGED <<clientVars, wire, uiVars>>

NextServer ==
    \/ GetIngredient
    \/ /\ seq.ingredients < Len(SeedIngredients) + MaxNewIngredients
       /\ \E body \in IngredientBodies : IngredientCreate(body)
       /\ UNCHANGED <<clientVars, wire, uiVars>>
    \/ \E id \in UpdateIdInputs, body \in IngredientBodies :
           IngredientUpdate(id, body) /\ UNCHANGED <<clientVars, wire, uiVars>>
    \/ DeleteIngredient
    \* the recipes created: one that uses a seeded ingredient, one that uses the
    \* first new ingredient
    \/ /\ seq.recipes < Len(SeedRecipes) + MaxNewRecipes
       /\ \E body \in { RecipeBody(Str(<<"S", "o", "u", "p">>), Undefined, Str(<<"B", "o", "i", "l">>), Undefined, Arr(<<IngredientRow(Num(N(6)), Num(15))>>)),
                        RecipeBody(Str(<<"S", "o", "u", "p">>), Undefined, Str(<<"B", "o", "i", "l">>), Undefined, Arr(<<IngredientRow(Num(N(Len(SeedIngredients) + 1)), Num(N(2)))>>)) } : RecipeCreate(body)
       /\ UNCHANGED <<clientVars, wire, uiVars>>

SpecServer == InitServer /\ [][NextServer]_vars

(***************************************************************************)
(* Properties of the ingredient router, checked under SpecServer.          *)
(***************************************************************************)
\* the rows of the table, other than row id, whose name equals name ignoring case
HoldersOf(table, name, id) ==
    { i \in DOMAIN table \ {id} : ToLowerCase(table[i].name) = ToLowerCase(name) }

\* C8: at every time no two stored ingredients have names that are equal ignoring
\* case, and a valid create request whose trimmed name equals a stored name
\* ignoring case is answered 409 CONFLICT and changes nothing in the store.
C8_NameUniqueness ==
    [][ /\ \A i \in DOMAIN ingredients' : HoldersOf(ingredients', ingredients'[i].name, i) = {}
        /\ \A body \in IngredientBodies :
              (/\ IngredientCreate(body)
               /\ body.name.t = "string"
               /\ IngredientCreateErrors(body.name, body.unit) = <<>>
               /\ HoldersOf(ingredients, Trim(body.name.s), 0) # {}) =>
                    /\ res'.status = 409
                    /\ res'.code = "CONFLICT"
                    /\ UNCHANGED storeVars ]_vars

\* C9: a valid PUT of a name to an existing ingredient is answered 200 when the
\* new name equals the ingredient's own name ignoring case and surrounding
\* whitespace; it is answered 409 CONFLICT exactly when another ingredient holds
\* the new trimmed name ignoring case, and then the store is unchanged.
C9_UpdateUniqueness ==
    [][ \A id \in UpdateIdInputs, body \in IngredientBodies :
           (/\ IngredientUpdate(id, body)
            /\ ~id.nan
            /\ id.v \in DOMAIN ingredients
            /\ body.name # Undefined
            /\ IngredientUpdateErrors(body.name, body.unit) = <<>>) =>
                /\ (ToLowerCase(Trim(body.name.s)) = ToLowerCase(ingredients[id.v].name)
                        => res'.status = 200)
                /\ (res'.status = 409
                        <=> HoldersOf(ingredients, Trim(body.name.s), id.v) # {})
                /\ (res'.status = 409 => res'.code = "CONFLICT" /\ UNCHANGED storeVars) ]_vars

RouteNotFound(method, path) ==
    Response(404, "NOT_FOUND",
             <<"R", "o", "u", "t", "e", " ", method, " ", path, " ",
               "n", "o", "t", " ", "f", "o", "u", "n", "d">>,
             <<>>, 0)

\* createServer: the middleware chain a request runs through
Serve(method, path, id, body) ==
    IF method = "GET" /\ path \in {"/api/recipes", "/api/health"}
    \* the list of all recipes, and app.get('/api/health')
    THEN /\ req' = Request("GET", path)
         /\ res' = Success(200, 0)
         /\ UNCHANGED storeVars
    ELSE IF method = "GET" /\ path = "/api/recipes/:id" THEN RecipeGet(id)
    ELSE IF method = "POST" /\ path = "/api/recipes" THEN RecipeCreate(body)
    ELSE IF method = "PUT" /\ path = "/api/recipes/:id" THEN RecipeUpdate(id, body)
    ELSE IF method = "DELETE" /\ path = "/api/recipes/:id" THEN RecipeDelete(id)
    ELSE /\ req' = Request(method, path)
         /\ res' = RouteNotFound(method, path)
         /\ UNCHANGED storeVars

\* a body with no field
EmptyBody == RecipeBody(Undefined, Undefined, Undefined, Undefined, Undefined)

\* the payloads posted to /api/recipes
CreateBodies ==
    { RecipeBody(Str(<<"S", "o", "u", "p">>), Undefined, Str(<<"B", "o", "i", "l">>), Undefined, Undefined),
      EmptyBody,
      RecipeBody(Str(<<"S", "o", "u", "p">>), Undefined, Str(<<"B", "o", "i", "l">>), Num(15), Undefined),
      [RecipeBody(Str(<<"S", "o", "u", "p">>), Undefined, Str(<<"B", "o", "i", "l">>), Num(N(0)), Undefined)
          EXCEPT !.prep_time = Num(N(-5))],
      RecipeBody(Str(<<"S", "o", "u", "p">>), Undefined, Str(<<"B", "o", "i", "l">>), Undefined, Obj),
      RecipeBody(Str(<<"S", "o", "u", "p">>), Undefined, Str(<<"B", "o", "i", "l">>), Undefined, Num(0)),
      RecipeBody(Str(<<"S", "o", "u", "p">>), Num(N(7)), Str(<<"B", "o", "i", "l">>), Undefined, Undefined),
      RecipeBody(Str(<<"S", "o", "u", "p">>), Undefined, Str(<<"B", "o", "i", "l">>), Undefined,
                 Arr(<<IngredientRow(Num(N(6)), Num(15)),
                       IngredientRow(Num(N(0)), Num(N(1))),
                       IngredientRow(Undefined, Num(N(2))),
                       IngredientRow(Num(N(7)), Str(<<"x">>))>>)),
      RecipeBody(Str(<<"S", "o", "u", "p">>), Undefined, Str(<<"B", "o", "i", "l">>), Undefined,
                 Arr(<<IngredientRow(Num(N(-1)), Num(N(1)))>>)),
      RecipeBody(Str(<<"S", "o", "u", "p">>), Undefined, Str(<<"B", "o", "i", "l">>), Undefined,
                 Arr(<<IngredientRow(Num(N(6)), Num(N(-2)))>>)) }

\* the payloads put to /api/recipes/:id
UpdateBodies ==
    { EmptyBody,
      [EmptyBody EXCEPT !.name = Str(<<" ", "S", "t", "e", "w", " ">>)],
      [EmptyBody EXCEPT !.name = Str(<<" ">>)],
      [EmptyBody EXCEPT !.description = Str(<<"H", "o", "t">>)],
      [EmptyBody EXCEPT !.servings = Num(15)],
      [EmptyBody EXCEPT !.servings = Num(N(0))],
      [EmptyBody EXCEPT !.ingredients = Obj],
      [EmptyBody EXCEPT !.ingredients = Arr(<<>>)],
      [EmptyBody EXCEPT !.ingredients =
          Arr(<<IngredientRow(Num(N(7)), Num(N(2))),
                IngredientRow(Num(N(0)), Num(N(1)))>>)] }

\* the route parameters sent: no number, a seeded recipe, the new recipes
RecipeIdInputs ==
    { NaN, Id(1) }
        \cup { Id(n) : n \in (Len(SeedRecipes) + 1)..(Len(SeedRecipes) + MaxNewRecipes) }
\* the recipe updated: the first new one
UpdateRecipeIdInputs == { NaN, Id(Len(SeedRecipes) + 1) }

NextApp ==
    \/ Serve("GET", "/api/recipes", NaN, EmptyBody) /\ UNCHANGED <<clientVars, wire, uiVars>>
    \/ \E id \in RecipeIdInputs :
           Serve("GET", "/api/recipes/:id", id, EmptyBody) /\ UNCHANGED <<clientVars, wire, uiVars>>
    \/ /\ seq.recipes < Len(SeedRecipes) + MaxNewRecipes
       /\ \E body \in CreateBodies : Serve("POST", "/api/recipes", NaN, body)
       /\ UNCHANGED <<clientVars, wire, uiVars>>
    \/ \E id \in UpdateRecipeIdInputs, body \in UpdateBodies :
           Serve("PUT", "/api/recipes/:id", id, body) /\ UNCHANGED <<clientVars, wire, uiVars>>
    \/ \E id \in RecipeIdInputs :
           Serve("DELETE", "/api/recipes/:id", id, EmptyBody) /\ UNCHANGED <<clientVars, wire, uiVars>>
    \* a request to the ingredient resource
    \/ \E method \in {"GET", "POST", "PUT", "DELETE"},
          path \in {"/api/ingredients", "/api/ingredients/:id"} :
           Serve(method, path, Id(1), EmptyBody) /\ UNCHANGED <<clientVars, wire, uiVars>>
    \/ Serve("GET", "/api/health", NaN, EmptyBody) /\ UNCHANGED <<clientVars, wire, uiVars>>

SpecApp == InitServer /\ [][NextApp]_vars

(***************************************************************************)
(* Properties of the recipe resource, checked under SpecApp.               *)
(***************************************************************************)
\* C11: when DELETE /api/recipes/:id is answered 204 the recipe is gone, no
\* link refers to it, and the rows and links of every other recipe, and the
\* ingredients, are as before; from then on no link refers to the id and every
\* GET of it is answered 404.
C11_RecipeDeleteCascades ==
    [][ /\ \A id \in RecipeIdInputs :
              (Serve("DELETE", "/api/recipes/:id", id, EmptyBody) /\ res'.status = 204) =>
                  /\ id.v \in DOMAIN recipes
                  /\ id.v \notin DOMAIN recipes'
                  /\ \A l \in links' : l.recipe_id # id.v
                  /\ \A r \in DOMAIN recipes \ {id.v} :
                         r \in DOMAIN recipes' /\ recipes'[r] = recipes[r]
                  /\ \A l \in links : l.recipe_id # id.v => l \in links'
                  /\ links' \subseteq links
                  /\ ingredients' = ingredients
        /\ \A n \in 1..seq.recipes :
              n \notin DOMAIN recipes =>
                  /\ \A l \in links : l.recipe_id # n
                  /\ n \notin DOMAIN recipes'
                  /\ (Serve("GET", "/api/recipes/:id", Id(n), EmptyBody)
                          => res'.status = 404 /\ res'.code = "NOT_FOUND") ]_vars

\* the first seeded recipe, which had six links, was deleted and a GET of its
\* id is answered 404; the other seeded recipes and their links are in place
C11_Witness ==
    /\ req = Request("GET", "/api/recipes/:id")
    /\ res = NotFoundError(RecipeText, 1)
    /\ 1 \notin DOMAIN recipes
    /\ \A l \in links : l.recipe_id # 1
    /\ \A l \in SeedLinks : l.recipe_id # 1 => l \in links
    /\ recipes[2] = SeedRecipes[2] /\ recipes[3] = SeedRecipes[3]

\* the fields of a create payload that break a rule of the create handler: a
\* required text that is missing, no text or blank; a number that is present and
\* is no number or is too small; ingredients that are given and are no sequence
ViolatedCreateFields(body) ==
    { f \in {"name", "instructions"} :
        body[f].t # "string" \/ Trim(body[f].s) = <<>> }
    \cup { f \in {"prep_time", "cook_time"} :
             body[f].t # "undefined" /\ (body[f].t # "number" \/ body[f].n < 0) }
    \cup { f \in {"servings"} :
             body[f].t # "undefined" /\ (body[f].t # "number" \/ body[f].n < N(1)) }
    \cup { f \in {"ingredients"} :
             body[f].t \notin {"undefined", "null", "array"}
             /\ ~(body[f].t = "string" /\ body[f].s = <<>>)
             /\ ~(body[f].t = "number" /\ body[f].n = 0) }

\* C13: POST /api/recipes is answered 400 VALIDATION_ERROR exactly when the
\* payload violates a field rule; the details then hold one entry for each
\* violated field, and no recipe and no link is inserted.
C13_CreateValidation ==
    [][ \A body \in CreateBodies :
           Serve("POST", "/api/recipes", NaN, body) =>
               /\ (res'.status = 400 <=> ViolatedCreateFields(body) # {})
               /\ (res'.status = 400 =>
                       /\ res'.code = "VALIDATION_ERROR"
                       /\ { res'.fields[i] : i \in 1..Len(res'.fields) }
                              = ViolatedCreateFields(body)
                       /\ Len(res'.fields) = Cardinality(ViolatedCreateFields(body))
                       /\ UNCHANGED storeVars) ]_vars

\* a payload without name and without instructions was rejected with an entry
\* for each, the store being the seeded one
C13_Witness ==
    /\ req = Request("POST", "/api/recipes")
    /\ res = ValidationError(ValidationFailed, <<"name", "instructions">>)
    /\ recipes = SeededRecipes
    /\ links = SeedLinks
    /\ seq = SeededSeq

\* a number of servings that is an integer and at least 1
IsWholeAtLeastOne(n) == n % 10 = 0 /\ n >= N(1)

\* the servings of a payload are present and are no integer >= 1
BadServings(body) ==
    body.servings # Undefined
    /\ ~(body.servings.t = "number" /\ IsWholeAtLeastOne(body.servings.n))

\* C14: every stored recipe has a servings value that is an integer >= 1, and a
\* create payload, or an update payload for an existing recipe, whose servings is
\* present and is no integer >= 1 is answered 400 VALIDATION_ERROR naming
\* servings and changes nothing.
C14_ServingsInteger ==
    [][ /\ \A r \in DOMAIN recipes' : IsWholeAtLeastOne(recipes'[r].servings)
        /\ \A body \in CreateBodies :
              (Serve("POST", "/api/recipes", NaN, body) /\ BadServings(body)) =>
                  /\ res'.status = 400
                  /\ res'.code = "VALIDATION_ERROR"
                  /\ \E i \in 1..Len(res'.fields) : res'.fields[i] = "servings"
                  /\ UNCHANGED storeVars
        /\ \A id \in UpdateRecipeIdInputs, body \in UpdateBodies :
              (/\ Serve("PUT", "/api/recipes/:id", id, body)
               /\ ~id.nan
               /\ id.v \in DOMAIN recipes
               /\ BadServings(body)) =>
                  /\ res'.status = 400
                  /\ res'.code = "VALIDATION_ERROR"
                  /\ \E i \in 1..Len(res'.fields) : res'.fields[i] = "servings"
                  /\ UNCHANGED storeVars ]_vars

\* C15: every stored recipe-ingredient link has a quantity >= 0.
C15_QuantityNonNegative == \A l \in links : l.quantity >= 0

\* C16: a POST /api/recipes, or a PUT /api/recipes/:id for an existing recipe,
\* whose ingredients field is present and is no sequence is answered 400
\* VALIDATION_ERROR naming ingredients, and the store is unchanged.
C16_IngredientsMustBeSequence ==
    [][ /\ \A body \in CreateBodies :
              (/\ Serve("POST", "/api/recipes", NaN, body)
               /\ body.ingredients.t \notin {"undefined", "array"}) =>
                  /\ res'.status = 400
                  /\ res'.code = "VALIDATION_ERROR"
                  /\ \E i \in 1..Len(res'.fields) : res'.fields[i] = "ingredients"
                  /\ UNCHANGED storeVars
        /\ \A id \in UpdateRecipeIdInputs, body \in UpdateBodies :
              (/\ Serve("PUT", "/api/recipes/:id", id, body)
               /\ ~id.nan
               /\ id.v \in DOMAIN recipes
               /\ body.ingredients.t \notin {"undefined", "array"}) =>
                  /\ res'.status = 400
                  /\ res'.code = "VALIDATION_ERROR"
                  /\ \E i \in 1..Len(res'.fields) : res'.fields[i] = "ingredients"
                  /\ UNCHANGED storeVars ]_vars

\* the links the rows of a payload stand for: one for each row with a positive
\* ingredient_id and a numeric quantity
LinksOfRows(recipeId, rows) ==
    { Link(recipeId, rows[i].ingredient_id.n \div 10, rows[i].quantity.n) :
        i \in { j \in 1..Len(rows) :
                  /\ rows[j].ingredient_id.t = "number"
                  /\ rows[j].ingredient_id.n > 0
                  /\ rows[j].quantity.t = "number" } }

\* the links of one recipe
LinksOf(ls, recipeId) == { l \in ls : l.recipe_id = recipeId }

\* the scalar fields of a payload are acceptable to both handlers
ScalarsAreValid(body) ==
    /\ \A f \in {"prep_time", "cook_time"} :
           body[f] = Undefined \/ (body[f].t = "number" /\ body[f].n >= 0)
    /\ body.servings = Undefined \/ (body.servings.t = "number" /\ body.servings.n >= N(1))
    /\ body.description.t \in {"undefined", "null", "string"}

\* C17: a create or update payload that is otherwise valid and carries a
\* sequence of ingredient rows succeeds, and the links of the recipe are then
\* exactly those of the rows with a positive ingredient_id and a numeric
\* quantity: every other row is dropped without an error.
C17_RowsKeptOrDropped ==
    [][ /\ \A body \in CreateBodies :
              (/\ Serve("POST", "/api/recipes", NaN, body)
               /\ body.ingredients.t = "array"
               /\ body.name.t = "string" /\ Trim(body.name.s) # <<>>
               /\ body.instructions.t = "string" /\ Trim(body.instructions.s) # <<>>
               /\ ScalarsAreValid(body)) =>
                  /\ res'.status = 201
                  /\ LinksOf(links', res'.id) = LinksOfRows(res'.id, body.ingredients.a)
        /\ \A id \in UpdateRecipeIdInputs, body \in UpdateBodies :
              (/\ Serve("PUT", "/api/recipes/:id", id, body)
               /\ ~id.nan
               /\ id.v \in DOMAIN recipes
               /\ body.ingredients.t = "array"
               /\ body.name = Undefined \/ (body.name.t = "string" /\ Trim(body.name.s) # <<>>)
               /\ body.instructions = Undefined
                  \/ (body.instructions.t = "string" /\ Trim(body.instructions.s) # <<>>)
               /\ ScalarsAreValid(body)) =>
                  /\ res'.status = 200
                  /\ LinksOf(links', id.v) = LinksOfRows(id.v, body.ingredients.a) ]_vars

\* C18: a PUT /api/recipes/:id answered 200 sets the supplied fields of the
\* recipe and leaves its omitted fields as they were; the links of the recipe
\* are those of the supplied rows when ingredients is supplied, and are as
\* before when it is omitted; every other recipe, the links of every other
\* recipe and the ingredients are unchanged.
C18_UpdateFrame ==
    [][ \A id \in UpdateRecipeIdInputs, body \in UpdateBodies :
           (Serve("PUT", "/api/recipes/:id", id, body) /\ res'.status = 200) =>
               /\ DOMAIN recipes' = DOMAIN recipes
               /\ \A r \in DOMAIN recipes \ {id.v} : recipes'[r] = recipes[r]
               /\ \A l \in links : l.recipe_id # id.v => l \in links'
               /\ \A l \in links' : l.recipe_id # id.v => l \in links
               /\ ingredients' = ingredients
               /\ \A f \in {"name", "description", "instructions",
                            "prep_time", "cook_time", "servings"} :
                      body[f] = Undefined => recipes'[id.v][f] = recipes[id.v][f]
               /\ body.name # Undefined => recipes'[id.v].name = Trim(body.name.s)
               /\ body.instructions # Undefined =>
                      recipes'[id.v].instructions = Trim(body.instructions.s)
               /\ body.description # Undefined =>
                      recipes'[id.v].description = Trim(body.description.s)
               /\ \A f \in {"prep_time", "cook_time", "servings"} :
                      body[f] # Undefined => recipes'[id.v][f] = body[f].n
               /\ body.ingredients = Undefined => LinksOf(links', id.v) = LinksOf(links, id.v)
               /\ body.ingredients # Undefined =>
                      LinksOf(links', id.v) = LinksOfRows(id.v, body.ingredients.a) ]_vars

\* C20: a request on /api/ingredients or /api/ingredients/:id is never answered
\* by the 404 handler of the application.
C20_IngredientRoutesMounted ==
    req.path \in {"/api/ingredients", "/api/ingredients/:id"} =>
        res # RouteNotFound(req.method, req.path)

(***************************************************************************)
(* The ingredient router with the names that try the rules of the create   *)
(* handler for the name field.                                             *)
(***************************************************************************)
\* a name of n letters
LongName(n) == [i \in 1..n |-> "x"]

\* the bodies posted, by name: missing, null, zero, a number, an object, empty,
\* blank, a name of the largest length with a space before it, a name one
\* letter longer, a short new name and a seeded name
NameRuleBodies == { IngredientBody(name, Undefined) : name \in { Undefined,
                                                                 JsVal("null", <<>>, 0, <<>>),
                                                                 Num(0),
                                                                 Num(N(5)),
                                                                 Obj,
                                                                 Str(<<>>),
                                                                 Str(<<" ", " ">>),
                                                                 Str(<<" ">> \o LongName(MaxNameLength)),
                                                                 Str(LongName(MaxNameLength + 1)),
                                                                 Str(<<" ", "K", "a", "l", "e", " ">>),
                                                                 Str(<<"f", "l", "o", "u", "r">>) } }

NextNames ==
    \/ /\ seq.ingredients < Len(SeedIngredients) + MaxNewIngredients
       /\ \E body \in NameRuleBodies : IngredientCreate(body)
       /\ UNCHANGED <<clientVars, wire, uiVars>>
    \/ GetIngredient
    \/ DeleteIngredient

SpecNames == InitServer /\ [][NextNames]_vars

\* C19: POST /api/ingredients is answered 400 VALIDATION_ERROR with a details
\* entry for name, and stores nothing, when the name is missing, is no string,
\* is empty after trimming or is longer than 100 characters after trimming; a
\* name of exactly 100 characters after trimming is not rejected for its name.
C19_IngredientNameValidation ==
    [][ \A body \in NameRuleBodies :
           IngredientCreate(body) =>
               /\ (\/ body.name.t # "string"
                   \/ Trim(body.name.s) = <<>>
                   \/ Len(Trim(body.name.s)) > 100) =>
                       /\ res'.status = 400
                       /\ res'.code = "VALIDATION_ERROR"
                       /\ \E i \in 1..Len(res'.fields) : res'.fields[i] = "name"
                       /\ UNCHANGED storeVars
               /\ (body.name.t = "string" /\ Len(Trim(body.name.s)) = 100) =>
                       \A i \in 1..Len(res'.fields) : res'.fields[i] # "name" ]_vars

(***************************************************************************)
(* Both routers on the seeded store, with the requests that add and remove *)
(* rows and links: the handlers of api/recipes.ts and api/ingredients.ts   *)
(* in any order.                                                           *)
(***************************************************************************)

\* ingredient rows of recipe payloads: a seeded and a new ingredient; the same
\* ingredient twice; an ingredient that was never created; an id sent as text
LinkRows ==
    { <<IngredientRow(Num(N(1)), Num(N(3))),
        IngredientRow(Num(N((Len(SeedIngredients) + 1))), Num(15))>>,
      <<IngredientRow(Num(N(6)), Num(N(1))), IngredientRow(Num(N(6)), Num(N(2)))>>,
      <<IngredientRow(Num(N(99)), Num(N(1)))>>,
      <<IngredientRow(Str(<<"6">>), Num(N(4)))>>,
      <<>> }

NextStore ==
    \* the ingredient payloads: a new name to create, the default unit to put
    \/ /\ seq.ingredients < Len(SeedIngredients) + MaxNewIngredients
       /\ \E body \in { IngredientBody(Str(<<" ", "K", "a", "l", "e", " ">>), Undefined) } : IngredientCreate(body)
       /\ UNCHANGED <<clientVars, wire, uiVars>>
    \/ \E id \in UpdateIdInputs, body \in { IngredientBody(Undefined, Str(<<"p", "i", "e", "c", "e">>)) } :
           IngredientUpdate(id, body) /\ UNCHANGED <<clientVars, wire, uiVars>>
    \/ \E id \in IdInputs : IngredientDelete(id) /\ UNCHANGED <<clientVars, wire, uiVars>>
    \/ /\ seq.recipes < Len(SeedRecipes) + MaxNewRecipes
       /\ \E body \in { RecipeBody(Str(<<"S", "o", "u", "p">>), Undefined, Str(<<"B", "o", "i", "l">>), Undefined, Arr(rows)) : rows \in LinkRows } : RecipeCreate(body)
       /\ UNCHANGED <<clientVars, wire, uiVars>>
    \/ \E id \in RecipeIdInputs, body \in { [EmptyBody EXCEPT !.ingredients = Arr(rows)] : rows \in LinkRows } :
           RecipeUpdate(id, body) /\ UNCHANGED <<clientVars, wire, uiVars>>
    \/ \E id \in RecipeIdInputs : RecipeDelete(id) /\ UNCHANGED <<clientVars, wire, uiVars>>

SpecStore == InitServer /\ [][NextStore]_vars

\* C12: in every reachable state every recipe-ingredient link refers to a recipe
\* and to an ingredient that are both in the store, and no two links have the
\* same recipe and ingredient.
C12_LinkIntegrity ==
    /\ \A l \in links : l.recipe_id \in DOMAIN recipes /\ l.ingredient_id \in DOMAIN ingredients
    /\ \A l1, l2 \in links :
           (l1.recipe_id = l2.recipe_id /\ l1.ingredient_id = l2.ingredient_id) => l1 = l2

\* a PUT that names the same ingredient twice failed on its second row: the
\* first seeded recipe is left with the one link, and an ingredient that no
\* link referred to any more has been deleted
C12_Witness ==
    /\ req = Request("PUT", "/api/recipes/:id")
    /\ res = InternalError
    /\ { l \in links : l.recipe_id = 1 } = { Link(1, 6, N(1)) }
    /\ 1 \notin DOMAIN ingredients

\* C27: a request that creates or updates a recipe and is answered 400, 404 or
\* 500 leaves the recipes and the recipe-ingredient links as they were, also
\* when it fails while inserting one of its ingredient rows.
C27_FailedRequestChangesNothing ==
    [][ (/\ req'.method \in {"POST", "PUT"}
         /\ req'.path \in {"/api/recipes", "/api/recipes/:id"}
         /\ res'.status \in {400, 404, 500}) =>
            UNCHANGED <<recipes, links>> ]_vars

(***************************************************************************)
(* seedDatabase of db/database.ts, called again on a store that the        *)
(* routers have changed.                                                   *)
(***************************************************************************)
\* seedDatabase without its test of the recipe count
SeedDatabaseUnguarded(count) == FALSE

\* the test of seedDatabase for data that is already there
AlreadySeeded(count) == count > 0

\* seedDatabase(): nothing when a recipe is stored; otherwise the ingredients
\* are inserted in order until a name breaks UNIQUE(name), then the recipes,
\* then the links with the ingredient ids as written, until one breaks its
\* foreign key.  No statement is undone when a later one throws.
SeedDatabase ==
    LET names == { ingredients[i].name : i \in DOMAIN ingredients }
        taken == { i \in 1..Len(SeedIngredients) : SeedIngredients[i].name \in names }
        n == IF taken = {} THEN Len(SeedIngredients)
             ELSE (CHOOSE i \in taken : \A j \in taken : i <= j) - 1
        inserted == [id \in DOMAIN ingredients \cup ((seq.ingredients + 1)..(seq.ingredients + n)) |->
                        IF id \in DOMAIN ingredients THEN ingredients[id]
                        ELSE SeedIngredients[id - seq.ingredients]]
        orphans == { i \in DOMAIN SeedLinkRows :
                       SeedLinkRows[i].ingredient_id \notin DOMAIN inserted }
        m == IF orphans = {} THEN Len(SeedLinkRows)
             ELSE (CHOOSE i \in orphans : \A j \in orphans : i <= j) - 1
    IN /\ boot.calls < MaxSeedCalls
       /\ IF AlreadySeeded(Cardinality(DOMAIN recipes))
          THEN /\ boot' = [calls |-> boot.calls + 1, outcome |-> "returned"]
               /\ UNCHANGED storeVars
          ELSE /\ ingredients' = inserted
               /\ IF taken # {}
                  THEN /\ seq' = [seq EXCEPT !.ingredients = @ + n]
                       /\ boot' = [calls |-> boot.calls + 1, outcome |-> "threw"]
                       /\ UNCHANGED <<recipes, links>>
                  ELSE /\ recipes' = [id \in DOMAIN recipes \cup ((seq.recipes + 1)..(seq.recipes + Len(SeedRecipes))) |->
                                         IF id \in DOMAIN recipes THEN recipes[id]
                                         ELSE SeedRecipes[id - seq.recipes]]
                       /\ seq' = [recipes |-> seq.recipes + Len(SeedRecipes),
                                  ingredients |-> seq.ingredients + n]
                       /\ links' = links \cup
                                     { [SeedLinkRows[i] EXCEPT !.recipe_id = @ + seq.recipes] : i \in 1..m }
                       /\ boot' = [calls |-> boot.calls + 1,
                                   outcome |-> IF orphans = {} THEN "returned" ELSE "threw"]
       /\ UNCHANGED <<clientVars, wire, req, res, portion, timer, api, toast>>

\* initDatabase() on a new file
InitDatabase == NoBackend /\ NoUi

\* calls of seedDatabase between requests that delete recipes, create one and
\* create an ingredient
NextSeed ==
    \/ SeedDatabase
    \/ \E id \in { Id(n) : n \in 1..(Len(SeedRecipes) + MaxNewRecipes) } :
           RecipeDelete(id) /\ UNCHANGED <<clientVars, wire, uiVars>>
    \/ /\ seq.recipes < Len(SeedRecipes) + MaxNewRecipes
       /\ RecipeCreate(RecipeBody(Str(<<"S", "o", "u", "p">>), Undefined, Str(<<"B", "o", "i", "l">>),
                                  Undefined, Arr(<<IngredientRow(Num(N(6)), Num(15))>>)))
       /\ UNCHANGED <<clientVars, wire, uiVars>>
    \/ /\ seq.ingredients < Len(SeedIngredients) + MaxNewIngredients
       /\ IngredientCreate(IngredientBody(Str(<<"K", "a", "l", "e">>), Undefined))
       /\ UNCHANGED <<clientVars, wire, uiVars>>

SpecSeed == InitDatabase /\ [][NextSeed]_vars

\* C25: seedDatabase called on the store that initDatabase leaves stores exactly
\* the 3 seed recipes, the 15 seed ingredients and their links; called on a
\* store that holds a recipe it changes nothing and returns without an error.
C25_SeedIsIdempotent ==
    [][ SeedDatabase =>
           /\ (recipes = <<>> /\ ingredients = <<>> /\ links = {}
                /\ seq = [recipes |-> 0, ingredients |-> 0]) =>
                   /\ recipes' = SeededRecipes
                   /\ ingredients' = SeededIngredients
                   /\ links' = SeedLinks
                   /\ boot'.outcome = "returned"
           /\ DOMAIN recipes # {} =>
                   /\ UNCHANGED storeVars
                   /\ boot'.outcome = "returned" ]_vars

\* seedDatabase was called three times in a row after initDatabase and the
\* store holds the seed data once
C25_Witness ==
    /\ boot = [calls |-> 3, outcome |-> "returned"]
    /\ recipes = SeededRecipes
    /\ ingredients = SeededIngredients
    /\ links = SeedLinks
    /\ req = NoRequest

(***************************************************************************)
(* JavaScript number arithmetic (IEEE 754 binary64), as far as the         *)
(* PortionCalculator uses it.  A number >= 0 is [m, e]: the value m * 2^e, *)
(* the integer m written in base 4096, lowest digit first.                 *)
(***************************************************************************)
Limb(m, i) == IF i \in 1..Len(m) THEN m[i] ELSE 0

\* binary digit p (the lowest is 0) of m
Bit(m, p) == (Limb(m, p \div 12 + 1) \div 2 ^ (p % 12)) % 2

\* the 60 low binary digits of m \div 2^d
ShiftRight(m, d) ==
    [j \in 1..5 |->
        Limb(m, j + d \div 12) \div 2 ^ (d % 12)
        + (Limb(m, j + d \div 12 + 1) % 2 ^ (d % 12)) * 2 ^ (12 - (d % 12))]

\* the base 4096 digits of the number whose digit k is c[k] plus the carry
RECURSIVE Carry(_, _, _)
Carry(c, k, carry) ==
    IF k > Len(c)
    THEN IF carry = 0 THEN <<>> ELSE <<carry % 4096>> \o Carry(c, k, carry \div 4096)
    ELSE <<(c[k] + carry) % 4096>> \o Carry(c, k + 1, (c[k] + carry) \div 4096)

\* the binary64 number nearest to m * 2^e, ties to the even one, for m = 0 or
\* m >= 2^52; sticky tells that the exact value is a little above m * 2^e
Fl(m, e, sticky) ==
    LET high == { i \in 1..Len(m) : m[i] # 0 }
        top == CHOOSE i \in high : \A j \in high : j <= i
        d == IF high = {} THEN 0
             ELSE 12 * (top - 1) + (CHOOSE b \in 0..11 : m[top] \div 2 ^ b = 1) - 52
    IN IF d <= 0 THEN [m |-> ShiftRight(m, 0), e |-> IF high = {} THEN 0 ELSE e]
       ELSE LET up == /\ Bit(m, d - 1) = 1
                      /\ \/ sticky
                         \/ \E p \in 0..(d - 2) : Bit(m, p) = 1
                         \/ Bit(m, d) = 1
            IN [m |-> Carry(ShiftRight(m, d), 1, IF up THEN 1 ELSE 0), e |-> e + d]

\* n base 4096 digits of r / b after the point, lowest first, after a first
\* element that tells whether a remainder is left
RECURSIVE QuotientDigits(_, _, _)
QuotientDigits(r, b, n) ==
    IF n = 0 THEN <<IF r = 0 THEN 0 ELSE 1>>
    ELSE QuotientDigits((r * 4096) % b, b, n - 1) \o <<(r * 4096) \div b>>

\* a / b of the integers 0 <= a < 2^31 and 0 < b < 2^19; Quotient(k, 100) is
\* also the number a decimal text of k hundredths reads as
Quotient(a, b) ==
    LET q == QuotientDigits(a % b, b, 6)
    IN Fl(Tail(q) \o Carry(<<a \div b>>, 1, 0), -72, Head(q) = 1)

\* x * y
Times(x1, y1) ==
    Fl(Carry([k \in 1..10 |->
                Sum([i \in 1..5 |-> x1.m[i] * Limb(y1.m, k + 1 - i)])], 1, 0),
       x1.e + y1.e, FALSE)

RECURSIVE Integer(_)
Integer(m) == IF m = <<>> THEN 0 ELSE Head(m) + 4096 * Integer(Tail(m))

(***************************************************************************)
(* PortionCalculator (components/Timer.tsx).  portion holds the props, the *)
(* state currentServings and the handler that ran last; quantities are     *)
(* written in hundredths: 250 is the quantity 2.5.                         *)
(***************************************************************************)
MaxServings == 12

\* formatQuantity
FormatQuantity(quantity) ==
    LET x1 == Times(quantity, Quotient(100, 1))
        \* Math.round(quantity * 100) for a number below 2^31: the integer
        \* below, plus one when the binary digit of weight 1/2 is set
        rounded == IF x1.e >= 0 THEN Integer(x1.m) * 2 ^ x1.e
                   ELSE Integer(ShiftRight(x1.m, -x1.e)) + Bit(x1.m, -x1.e - 1)
        fixed == DecimalString(rounded \div 100)
                   \o <<".", Digit((rounded % 100) \div 10), Digit(rounded % 10)>>
        zeros == CHOOSE z \in 0..Len(fixed) :
                    /\ \A i \in (Len(fixed) - z + 1)..Len(fixed) : fixed[i] = "0"
                    /\ z < Len(fixed) => fixed[Len(fixed) - z] # "0"
        kept == SubSeq(fixed, 1, Len(fixed) - zeros)
    IN IF rounded % 100 = 0 THEN DecimalString(rounded \div 100)
       ELSE IF zeros > 0 /\ kept # <<>> /\ Last(kept) = "."
            THEN SubSeq(kept, 1, Len(kept) - 1)
            ELSE kept

\* a ratio that forgets the original servings
RatioOfOne(currentServings, originalServings) == Quotient(currentServings, 1)

\* currentServings / originalServings
Ratio(currentServings, originalServings) == Quotient(currentServings, originalServings)

\* ingredient.quantity * ratio of every ingredient
AdjustedQuantity(p) ==
    [i \in DOMAIN p.ingredients |->
        Times(Quotient(p.ingredients[i], 100), Ratio(p.currentServings, p.originalServings))]

\* what the table shows in its Adjusted column
Displayed(p) == [i \in DOMAIN p.ingredients |-> FormatQuantity(AdjustedQuantity(p)[i])]

IsModified(p) == p.currentServings # p.originalServings

\* parseInt(text, 10): the sign and the decimal digits the text starts with
\* after its white space, NaN when it starts with no digit
ParseInt(text) ==
    LET s == TrimStart(text)
        signed == s # <<>> /\ s[1] \in {"-", "+"}
        rest == IF signed THEN Tail(s) ELSE s
        n == CHOOSE k \in 0..Len(rest) :
                /\ \A i \in 1..k : IsDigits(<<rest[i]>>)
                /\ k < Len(rest) => ~IsDigits(<<rest[k + 1]>>)
        value == DigitsValue(SubSeq(rest, 1, n))
    IN IF n = 0 THEN NaN
       ELSE Id(IF signed /\ s[1] = "-" THEN -value ELSE value)

\* a decrease without the lower limit
DecreasedBelowOne(prev) == prev - 1

\* setCurrentServings(prev => Math.max(1, prev - 1))
Decreased(prev) == IF prev - 1 > 1 THEN prev - 1 ELSE 1

\* a test that only asks for a number
IsNumber(value) == ~value.nan

\* the test of handleInputChange
IsServings(value) == ~value.nan /\ value.v >= 1

HandleInputChange(text) ==
    /\ portion' = [portion EXCEPT
                      !.currentServings = IF IsServings(ParseInt(text))
                                          THEN ParseInt(text).v ELSE @,
                      !.event = <<"input", text>>]
    /\ UNCHANGED <<clientVars, wire, serverVars, timer, api, toast, boot>>

\* the component mounted with a positive integer of servings and a list of
\* ingredient quantities: useState(originalServings)
InitPortion ==
    /\ NoBackend
    /\ timer = Unmounted /\ api = Unmounted /\ toast = Unmounted
    /\ \E originalServings \in {1, 4, 10},
          quantities \in { <<20000, 25000, 200, 300>>, <<425, 1999, 35>>, <<75, 100, 1>> } :
           portion = [originalServings |-> originalServings,
                      ingredients |-> quantities,
                      currentServings |-> originalServings,
                      event |-> <<"mount">>]

NextPortion ==
    \/ \* handleDecrease
       /\ portion' = [portion EXCEPT !.currentServings = Decreased(@),
                                     !.event = <<"decrease">>]
       /\ UNCHANGED <<clientVars, wire, serverVars, timer, api, toast, boot>>
    \/ \* handleIncrease
       /\ portion.currentServings < MaxServings
       /\ portion' = [portion EXCEPT !.currentServings = @ + 1,
                                     !.event = <<"increase">>]
       /\ UNCHANGED <<clientVars, wire, serverVars, timer, api, toast, boot>>
    \/ \* the texts the servings field delivers: a number input delivers the
       \* text of a number, and the empty text for anything else that was typed
       \E text \in { <<"8">>, <<"1">>, <<"3">>, <<"1", "2">>, <<"2", ".", "7">>, <<"0">>,
                     <<"0", ".", "5">>, <<"-", "3">>, <<"-", "0", ".", "5">>, <<>>,
                     <<"a", "b", "c">> } : HandleInputChange(text)
    \/ \* handleReset; the Reset button is rendered while isModified
       /\ IsModified(portion)
       /\ portion' = [portion EXCEPT !.currentServings = portion.originalServings,
                                     !.event = <<"reset">>]
       /\ UNCHANGED <<clientVars, wire, serverVars, timer, api, toast, boot>>

SpecPortion == InitPortion /\ [][NextPortion]_vars

(***************************************************************************)
(* Properties of the PortionCalculator, checked under SpecPortion.         *)
(***************************************************************************)
\* C21: currentServings is an integer >= 1 before and after every decrease,
\* increase, direct input and reset, and a decrease at currentServings = 1
\* leaves it at 1.
C21_ServingsStayPositive ==
    [][ /\ portion.currentServings \in Nat \ {0}
        /\ portion'.currentServings \in Nat \ {0}
        /\ (portion.currentServings = 1 /\ portion'.event = <<"decrease">>) =>
              portion'.currentServings = 1 ]_vars

\* a recipe of 10 servings was brought down to 1 serving and the last thing
\* that happened is a decrease
C21_Witness ==
    /\ portion # Unmounted
    /\ portion.originalServings = 10
    /\ portion.currentServings = 1
    /\ portion.event = <<"decrease">>

\* the texts typed that are no number, zero or negative
C22_Rejected == { <<>>, <<"a", "b", "c">>, <<"0">>, <<"-", "3">>, <<"-", "0", ".", "5">> }

\* C22: a direct input that is non-numeric, zero or negative changes neither
\* currentServings nor the adjusted quantity of any ingredient.
C22_InvalidInputIsRejected ==
    [][ (/\ portion'.event[1] = "input"
         /\ portion'.event[2] \in C22_Rejected) =>
            /\ portion'.currentServings = portion.currentServings
            /\ AdjustedQuantity(portion') = AdjustedQuantity(portion) ]_vars

\* "0" was typed into the field of a recipe of 4 servings that showed 8
C22_Witness ==
    /\ portion # Unmounted
    /\ portion.originalServings = 4
    /\ portion.currentServings = 8
    /\ portion.event = <<"input", <<"0">>>>

\* q * s / s0 of ingredient i in hundredths, rounded to the nearest integer:
\* a tie rounded up, and a tie rounded to the even neighbour
C23_Rounded(p, i) ==
    LET twice == 2 * p.ingredients[i] * p.currentServings + p.originalServings
        up == twice \div (2 * p.originalServings)
    IN { up, IF twice % (2 * p.originalServings) = 0 /\ up % 2 = 1 THEN up - 1 ELSE up }

\* n hundredths printed without trailing zeros and without a trailing point
C23_Printed(n) ==
    IF n % 100 = 0 THEN DecimalString(n \div 100)
    ELSE IF n % 10 = 0 THEN DecimalString(n \div 100) \o <<".", Digit((n % 100) \div 10)>>
    ELSE DecimalString(n \div 100) \o <<".", Digit((n % 100) \div 10), Digit(n % 10)>>

\* C23: the adjusted quantity shown for every ingredient is q * s / s0 rounded
\* to 2 decimal places (a tie either up or to even), printed without trailing
\* zeros or a trailing point.
C23_AdjustedIsRoundedQuotient ==
    \A i \in DOMAIN portion.ingredients :
        Displayed(portion)[i] \in { C23_Printed(n) : n \in C23_Rounded(portion, i) }

\* C24: whenever currentServings equals originalServings, and so after every
\* reset, every adjusted quantity is the original quantity, is shown as the
\* original quantity, and the component is not modified.
C24_ScalingIsReversible ==
    /\ portion.event = <<"reset">> => portion.currentServings = portion.originalServings
    /\ portion.currentServings = portion.originalServings =>
          /\ AdjustedQuantity(portion) =
                [i \in DOMAIN portion.ingredients |-> Quotient(portion.ingredients[i], 100)]
          /\ Displayed(portion) =
                [i \in DOMAIN portion.ingredients |->
                    FormatQuantity(Quotient(portion.ingredients[i], 100))]
          /\ ~IsModified(portion)

\* a recipe of 10 servings with the quantities 4.25, 19.99 and 0.35 was
\* changed and then reset
C24_Witness ==
    /\ portion # Unmounted
    /\ portion.originalServings = 10
    /\ portion.currentServings = 10
    /\ portion.ingredients = <<425, 1999, 35>>
    /\ portion.event = <<"reset">>

(***************************************************************************)
(* TimerComponent (components/Timer.tsx).  timer holds the state of the    *)
(* component, whether a Worker is available, the messages posted to the    *)
(* worker and not yet received (posted), whether the interval of the       *)
(* worker, or without a Worker the interval of the component, is set       *)
(* (interval), the tick messages of the worker not yet handled (ticks) and *)
(* what happened last (event).                                             *)
(***************************************************************************)
MaxPosted == 2
MaxTicks == 1

\* workerRef.current.postMessage({ type }) where a Worker is available
PostMessage(t, type) == IF t.worker THEN [t EXCEPT !.posted = Append(@, type)] ELSE t

\* parseInt(text, 10) || 0
SecondsOf(text) == IF ParseInt(text).nan THEN 0 ELSE ParseInt(text).v

\* the update both tick handlers apply, followed in the fallback by the effect
\* that clears the interval on completion
Tick(t) ==
    IF t.timeRemaining <= 1
    THEN PostMessage([t EXCEPT !.timeRemaining = 0,
                               !.timerState = "completed",
                               !.interval = IF t.worker THEN @ ELSE FALSE,
                               !.event = "tick"], "stop")
    ELSE [t EXCEPT !.timeRemaining = @ - 1, !.event = "tick"]

\* handleMinutesChange and handleSecondsChange: the other field's text, the
\* largest value the field takes, and the text typed
TimeChange(t, field, value) ==
    IF value = <<>> \/ (IsDigits(value) /\ ParseInt(value).v <= (IF field = "minutes" THEN 999 ELSE 59))
    THEN LET u == [t EXCEPT ![field] = value, !.event = "input"]
             total == SecondsOf(u.minutes) * 60 + SecondsOf(u.seconds)
         IN IF t.timerState = "idle"
            THEN [u EXCEPT !.totalTime = total, !.timeRemaining = total]
            ELSE u
    ELSE [t EXCEPT !.event = "input"]

\* the component as it is mounted, with and without a Worker
InitTimer ==
    /\ NoBackend
    /\ portion = Unmounted /\ api = Unmounted /\ toast = Unmounted
    /\ \E worker \in BOOLEAN :
           timer = [worker |-> worker, timeRemaining |-> 0, totalTime |-> 0,
                    timerState |-> "idle", minutes |-> <<>>, seconds |-> <<>>,
                    posted |-> <<>>, interval |-> ~worker, ticks |-> 0,
                    event |-> "mount"]

NextTimer ==
    \/ \* handleStart; the button is rendered while not running and disabled
       \* while timeRemaining is 0 in a state other than completed
       /\ timer.timerState # "running"
       /\ timer.timerState = "completed" \/ timer.timeRemaining # 0
       /\ Len(timer.posted) < MaxPosted
       /\ LET totalSeconds == SecondsOf(timer.minutes) * 60 + SecondsOf(timer.seconds)
          IN timer' =
               IF timer.timeRemaining = 0
               THEN IF totalSeconds > 0
                    THEN PostMessage([timer EXCEPT !.totalTime = totalSeconds,
                                                   !.timeRemaining = totalSeconds,
                                                   !.timerState = "running",
                                                   !.event = "start"], "start")
                    ELSE [timer EXCEPT !.event = "start"]
               ELSE PostMessage([timer EXCEPT !.timerState = "running",
                                              !.event = "start"], "start")
       /\ UNCHANGED <<clientVars, wire, serverVars, portion, api, toast, boot>>
    \/ \* handlePause; the button is rendered while running
       /\ timer.timerState = "running"
       /\ Len(timer.posted) < MaxPosted
       /\ timer' = PostMessage([timer EXCEPT !.timerState = "paused",
                                             !.event = "pause"], "stop")
       /\ UNCHANGED <<clientVars, wire, serverVars, portion, api, toast, boot>>
    \/ \* handleReset; the button is disabled while idle
       /\ timer.timerState # "idle"
       /\ Len(timer.posted) < MaxPosted
       /\ timer' = PostMessage([timer EXCEPT !.timerState = "idle",
                                             !.timeRemaining = 0,
                                             !.totalTime = 0,
                                             !.minutes = <<>>,
                                             !.seconds = <<>>,
                                             !.event = "reset"], "stop")
       /\ UNCHANGED <<clientVars, wire, serverVars, portion, api, toast, boot>>
    \/ \* handlePreset; the buttons are disabled while running
       /\ timer.timerState # "running"
       /\ Len(timer.posted) < MaxPosted
       /\ \E presetSeconds \in {300} :
             timer' = PostMessage([timer EXCEPT
                                      !.totalTime = presetSeconds,
                                      !.timeRemaining = presetSeconds,
                                      !.minutes = DecimalString(presetSeconds \div 60),
                                      !.seconds = DecimalString(presetSeconds % 60),
                                      !.timerState = "running",
                                      !.event = "preset"], "start")
       /\ UNCHANGED <<clientVars, wire, serverVars, portion, api, toast, boot>>
    \/ \* handleMinutesChange; the field is disabled while running
       /\ timer.timerState # "running"
       /\ \E value \in { <<>>, <<"1">>, <<"1", "0", "0", "0">> } :
             timer' = TimeChange(timer, "minutes", value)
       /\ UNCHANGED <<clientVars, wire, serverVars, portion, api, toast, boot>>
    \/ \* handleSecondsChange; the field is disabled while running
       /\ timer.timerState # "running"
       /\ \E value \in { <<>>, <<"2">>, <<"6", "0">> } :
             timer' = TimeChange(timer, "seconds", value)
       /\ UNCHANGED <<clientVars, wire, serverVars, portion, api, toast, boot>>
    \/ \* self.onmessage of the worker
       /\ timer.posted # <<>>
       /\ timer' = [timer EXCEPT !.posted = Tail(@),
                                 !.interval = Head(timer.posted) = "start",
                                 !.event = "worker"]
       /\ UNCHANGED <<clientVars, wire, serverVars, portion, api, toast, boot>>
    \/ \* the interval of the worker posts a tick
       /\ timer.worker /\ timer.interval
       /\ timer.ticks < MaxTicks
       /\ timer' = [timer EXCEPT !.ticks = @ + 1, !.event = "worker"]
       /\ UNCHANGED <<clientVars, wire, serverVars, portion, api, toast, boot>>
    \/ \* workerRef.current.onmessage
       /\ timer.ticks > 0
       /\ Len(timer.posted) < MaxPosted
       /\ timer' = Tick([timer EXCEPT !.ticks = @ - 1])
       /\ UNCHANGED <<clientVars, wire, serverVars, portion, api, toast, boot>>
    \/ \* the interval of the component, where no Worker is available
       /\ ~timer.worker /\ timer.interval
       /\ timer' = Tick(timer)
       /\ UNCHANGED <<clientVars, wire, serverVars, portion, api, toast, boot>>

SpecTimer == InitTimer /\ [][NextTimer]_vars

(***************************************************************************)
(* Properties of the TimerComponent, checked under SpecTimer.              *)
(***************************************************************************)
\* C26: where a Worker is available, timerState changes only to running by
\* Start with a positive time (from paused with the remaining time kept) or by
\* a preset, from running to paused by Pause, from running to completed by a
\* tick that takes timeRemaining from 1 to 0, and to idle by Reset; and Reset
\* leaves idle with timeRemaining 0, totalTime 0 and both inputs empty.
C26_TimerTransitions ==
    [][ timer.worker =>
          /\ timer'.timerState # timer.timerState =>
                \/ /\ timer'.timerState = "running"
                   /\ timer'.event = "start"
                   /\ timer'.timeRemaining > 0
                   /\ timer.timerState = "paused" =>
                         timer'.timeRemaining = timer.timeRemaining
                \/ /\ timer'.timerState = "running"
                   /\ timer'.event = "preset"
                \/ /\ timer.timerState = "running"
                   /\ timer'.timerState = "paused"
                   /\ timer'.event = "pause"
                \/ /\ timer.timerState = "running"
                   /\ timer'.timerState = "completed"
                   /\ timer'.event = "tick"
                   /\ timer.timeRemaining = 1
                   /\ timer'.timeRemaining = 0
                \/ /\ timer'.timerState = "idle"
                   /\ timer'.event = "reset"
          /\ timer'.event = "reset" =>
                /\ timer'.timerState = "idle"
                /\ timer'.timeRemaining = 0
                /\ timer'.totalTime = 0
                /\ timer'.minutes = <<>>
                /\ timer'.seconds = <<>> ]_vars

\* C28: a tick handled while the timer is idle, paused or completed changes
\* neither timeRemaining nor timerState, with a Worker and with the fallback
\* interval alike, and timeRemaining is never negative.
C28_TickOnlyWhileRunning ==
    [][ /\ timer'.timeRemaining >= 0
        /\ (timer'.event = "tick" /\ timer.timerState # "running") =>
              /\ timer'.timeRemaining = timer.timeRemaining
              /\ timer'.timerState = timer.timerState ]_vars

(***************************************************************************)
(* useApi (hooks/useApi.ts).  api holds the state of the hook (data,       *)
(* loading, error), the promise of every execute call in the order the     *)
(* calls were started (calls) and what happened last (event).  The result  *)
(* of call n is written n, the message of its error n, and null 0.         *)
(***************************************************************************)
MaxCalls == 3

\* the hook as it is mounted, with initialData null or a value
InitApi ==
    /\ NoBackend
    /\ portion = Unmounted /\ timer = Unmounted /\ toast = Unmounted
    /\ \E initialData \in {0, 9} :
           api = [initialData |-> initialData, data |-> initialData, loading |-> FALSE,
                  error |-> 0, calls |-> <<>>, event |-> "mount"]

NextApi ==
    \/ \* execute, up to its await
       /\ Len(api.calls) < MaxCalls
       /\ api' = [api EXCEPT !.loading = TRUE, !.error = 0,
                             !.calls = Append(@, "pending"), !.event = "execute"]
       /\ UNCHANGED <<clientVars, wire, serverVars, portion, timer, toast, boot>>
    \/ \* execute, after apiFunction has resolved
       \E n \in DOMAIN api.calls :
          /\ api.calls[n] = "pending"
          /\ api' = [api EXCEPT !.data = n, !.loading = FALSE, !.error = 0,
                                !.calls[n] = "resolved", !.event = "settle"]
          /\ UNCHANGED <<clientVars, wire, serverVars, portion, timer, toast, boot>>
    \/ \* execute, after apiFunction has rejected
       \E n \in DOMAIN api.calls :
          /\ api.calls[n] = "pending"
          /\ api' = [api EXCEPT !.data = 0, !.loading = FALSE, !.error = n,
                                !.calls[n] = "rejected", !.event = "settle"]
          /\ UNCHANGED <<clientVars, wire, serverVars, portion, timer, toast, boot>>
    \/ \* reset
       /\ api' = [api EXCEPT !.data = api.initialData, !.loading = FALSE, !.error = 0,
                             !.event = "reset"]
       /\ UNCHANGED <<clientVars, wire, serverVars, portion, timer, toast, boot>>
    \/ \* setData
       \E data \in {0, 9} :
          /\ api' = [api EXCEPT !.data = data, !.event = "setData"]
          /\ UNCHANGED <<clientVars, wire, serverVars, portion, timer, toast, boot>>

SpecApi == InitApi /\ [][NextApi]_vars

\* C29: after an execute call has started or settled, loading is true if a call
\* is still in flight; and when the last call in flight settles, loading is
\* false and data and error are those of the call that was started last.
C29_LastStartedCallWins ==
    [][ /\ (/\ api'.event \in {"execute", "settle"}
            /\ \E n \in DOMAIN api'.calls : api'.calls[n] = "pending") => api'.loading
        /\ (/\ api'.event = "settle"
            /\ \A n \in DOMAIN api'.calls : api'.calls[n] # "pending") =>
              /\ ~api'.loading
              /\ api'.data = IF Last(api'.calls) = "resolved" THEN Len(api'.calls) ELSE 0
              /\ api'.error = IF Last(api'.calls) = "rejected" THEN Len(api'.calls) ELSE 0
      ]_vars

(***************************************************************************)
(* useToast (hooks/useToast.ts).  toast holds the toasts of the hook, the  *)
(* ids that have a timeout in timeoutsRef (timeouts), the number of toasts *)
(* added (added; the n-th toast has the id n, the ids the hook draws being *)
(* distinct), the ids taken out of the list in order (removed) and what    *)
(* happened last (event).                                                  *)
(***************************************************************************)
DEFAULT_DURATION == 5000
MaxToasts == 3

\* a removeToast that leaves the timeout in timeoutsRef
RemoveToastKeepingTimeout(t, id, by) ==
    [t EXCEPT !.toasts = SelectSeq(@, LAMBDA x : x.id # id),
              !.removed = IF \E i \in DOMAIN t.toasts : t.toasts[i].id = id
                          THEN Append(@, id) ELSE @,
              !.event = <<by, id>>]

\* removeToast(id), called by the close button or by the timeout of the toast
RemoveToast(t, id, by) ==
    [t EXCEPT !.toasts = SelectSeq(@, LAMBDA x : x.id # id),
              !.timeouts = @ \ {id},
              !.removed = IF \E i \in DOMAIN t.toasts : t.toasts[i].id = id
                          THEN Append(@, id) ELSE @,
              !.event = <<by, id>>]

\* the callback of the setTimeout of addToast
TimeoutFires(id) ==
    /\ toast.mounted
    /\ id \in toast.timeouts
    /\ toast' = RemoveToast(toast, id, "timeout")
    /\ UNCHANGED <<clientVars, wire, serverVars, portion, timer, api, boot>>

InitToast ==
    /\ NoBackend
    /\ portion = Unmounted /\ timer = Unmounted /\ api = Unmounted
    /\ toast = [mounted |-> TRUE, toasts |-> <<>>, timeouts |-> {}, added |-> 0,
                removed |-> <<>>, event |-> <<"mount">>]

NextToast ==
    \/ \* addToast, with the default duration, another one, and none
       \E duration \in {DEFAULT_DURATION, 3000, 0} :
          /\ toast.mounted
          /\ toast.added < MaxToasts
          /\ toast' = [toast EXCEPT
                          !.toasts = Append(@, [id |-> toast.added + 1, duration |-> duration]),
                          !.timeouts = IF duration > 0 THEN @ \cup {toast.added + 1} ELSE @,
                          !.added = @ + 1,
                          !.event = <<"addToast", toast.added + 1>>]
          /\ UNCHANGED <<clientVars, wire, serverVars, portion, timer, api, boot>>
    \/ \* removeToast called with the id of a toast that was added
       \E id \in 1..toast.added :
          /\ toast.mounted
          /\ toast' = RemoveToast(toast, id, "removeToast")
          /\ UNCHANGED <<clientVars, wire, serverVars, portion, timer, api, boot>>
    \/ \E id \in 1..MaxToasts : TimeoutFires(id)
    \/ \* the cleanup of the effect, on unmount
       /\ toast.mounted
       /\ toast' = [toast EXCEPT !.mounted = FALSE, !.timeouts = {}, !.event = <<"unmount">>]
       /\ UNCHANGED <<clientVars, wire, serverVars, portion, timer, api, boot>>

\* a timeout that is set fires
SpecToast ==
    /\ InitToast
    /\ [][NextToast]_vars
    /\ \A id \in 1..MaxToasts : WF_vars(TimeoutFires(id))

\* the toast with this id is in the list, with a duration in the set
C30_Shown(t, id, durations) ==
    \E i \in DOMAIN t.toasts : t.toasts[i].id = id /\ t.toasts[i].duration \in durations

\* C30: every toast is taken out of the list at most once, and a toast with a
\* duration > 0 is taken out in the end (by its timeout unless by hand) while
\* the hook is mounted; a removeToast by hand takes the toast and its timeout
\* away; a toast with duration 0 leaves the list by a removeToast by hand only;
\* and every timeout registered belongs to a toast that is in the list.
C30_ToastLifecycle ==
    /\ [](\A id \in toast.timeouts : C30_Shown(toast, id, {DEFAULT_DURATION, 3000}))
    /\ [](\A i, j \in DOMAIN toast.removed : i # j => toast.removed[i] # toast.removed[j])
    /\ [][ \A id \in 1..MaxToasts :
             /\ toast'.event = <<"removeToast", id>> =>
                   /\ id \notin toast'.timeouts
                   /\ ~C30_Shown(toast', id, {DEFAULT_DURATION, 3000, 0})
             /\ (C30_Shown(toast, id, {0}) /\ ~C30_Shown(toast', id, {0})) =>
                   toast'.event = <<"removeToast", id>> ]_vars
    /\ \A id \in 1..MaxToasts :
          C30_Shown(toast, id, {DEFAULT_DURATION, 3000})
             ~> (~C30_Shown(toast, id, {DEFAULT_DURATION, 3000}) \/ ~toast.mounted)

\* toast 1 and then toast 2 have left the list, toast 2 by its timeout, and
\* toast 3, which has duration 0, is still shown
C30_Witness ==
    /\ toast.mounted
    /\ toast.removed = <<1, 2>>
    /\ toast.event = <<"timeout", 2>>
    /\ toast.toasts = <<[id |-> 3, duration |-> 0]>>
    /\ toast.timeouts = {}

====
